---- MODULE Spec2Model ----
(***************************************************************************)
(* Model of the AIBOM agent: the request handler (main.py invoke), the      *)
(* pipeline coordinator (AIBOMAgentOrchestrator), the document builder      *)
(* (AIBOMGenerator), the risk interpreter (BedrockAgentService) and the     *)
(* report sink (ReportGenerator).                                           *)
(*                                                                          *)
(* Conventions.  A Python exception is the record [raised |-> TRUE, ...];   *)
(* a missing key / None is the string Absent.  A coroutine is a record with *)
(* a pc; every await is a point where siblings may interleave.  A float risk  *)
(* score is held in tenths (5.0 is 50).                                     *)
(***************************************************************************)
EXTENDS Integers, Sequences, FiniteSets, TLC

VARIABLES
    orchestrator,   \* main.py: the module-level orchestrator (None or the instance)
    inv,            \* the invoke() call in progress, its payload and its response
    cmp,            \* the compare_models coroutine of the request
    pipes,          \* the analyze_single_model coroutines of the request, by occurrence
    finished,       \* pipeline occurrences in the order they completed
    calls,          \* how often the request invoked engine, insights, comparison report
    served,         \* requests answered so far
    reply,          \* risk interpreter alone: the outcome of the reasoning service
    analysis,       \* risk interpreter alone: what analyze_security returned for it
    reply_insights, \* risk interpreter alone: what generate_comparison_insights returned
    engine_results, \* comparison engine alone: the list it is called with
    engine_out,     \* comparison engine alone: what compare_models gave for it
    builds,         \* document builder alone: the generate_aibom calls in progress
    temp_dir,       \* document builder alone: the files present in its temp_dir
    dir_exists,     \* document builder alone: whether the temp_dir directory exists
    system,         \* a coordinator object on its own: its _initialized flag and how
                    \* often each service's initialize has run
    callers         \* the calls in progress on that coordinator object

\* The request handler and its coroutines; the services exercised on their own.
mainVars == <<orchestrator, inv, cmp, pipes, finished, calls, served>>

riskVars == <<reply, analysis, reply_insights>>

engineVars == <<engine_results, engine_out>>

buildVars == <<builds, temp_dir, dir_exists>>
sysVars == <<system, callers>>

vars == <<mainVars, riskVars, engineVars, buildVars, sysVars>>

\* ---------------------------------------------------------------- bounds

MaxModels == 2          \* longest model_names list of a request

\* ---------------------------------------------------------------- values

Absent == "absent"

ModelNames == {"a", "b"}
Sessions == {"s1", "s2"}
SupportedActions == <<"analyze_model", "compare_models">>
Actions == {"analyze_model", "compare_models", "bogus", Absent}

RECURSIVE SeqsUpTo(_, _)
SeqsUpTo(S, n) ==
    IF n = 0 THEN {<<>>}
    ELSE LET shorter == SeqsUpTo(S, n - 1)
         IN shorter \cup {Append(s, x) : s \in {t \in shorter : Len(t) = n - 1}, x \in S}

Range(s) == {s[i] : i \in DOMAIN s}

\* The payloads a caller can send: the fields an action does not read are Absent/empty.
Payloads ==
    {[action |-> "analyze_model", model_name |-> n, model_names |-> <<>>] :
        n \in ModelNames \cup {Absent}}
    \cup {[action |-> "compare_models", model_name |-> Absent, model_names |-> ns] :
        ns \in SeqsUpTo(ModelNames, MaxModels)}
    \cup {[action |-> a, model_name |-> Absent, model_names |-> <<>>] :
        a \in {"bogus", Absent}}

\* ---------------------------------------------------------------- metadata provider

\* A file name is a sequence of lexical pieces; its suffix is its last piece.
EndsWith(name, suffixes) == Len(name) > 0 /\ name[Len(name)] \in suffixes

Lower(piece) == IF piece \in {"Pickle", "PICKLE"} THEN "pickle" ELSE piece

ContainsLower(name, piece) == \E i \in DOMAIN name : Lower(name[i]) = piece

\* What the hub holds for each model (the collaborator's state, fixed during a run).
HubFiles(model_name) ==
    IF model_name = "a"
    THEN << <<"model", ".bin">>, <<"config", ".json">>, <<"Pickle", "_loader", ".py">> >>
    ELSE << <<"model", ".safetensors">>, <<"README", ".md">> >>

HubLicense(model_name) == IF model_name = "a" THEN Absent ELSE "mit"

HubLibrary(model_name) == IF model_name = "a" THEN "transformers" ELSE Absent

SizePerFile == 500000000

\* Optional[int]: None is NoSize, n is KnownSize(n).
NoSize == [known |-> FALSE, v |-> 0]

KnownSize(n) == [known |-> TRUE, v |-> n]

estimate_model_size(files) ==
    LET model_files == {i \in DOMAIN files : EndsWith(files[i], {".bin", ".safetensors", ".h5"})}
    IN IF model_files # {} THEN KnownSize(Cardinality(model_files) * SizePerFile) ELSE NoSize

\* HuggingFaceService.get_model_info: the ModelInfo on success, the error re-raised.
get_model_info(model_name, outcome) ==
    IF outcome = "ok"
    THEN [raised |-> FALSE,
          value |-> [name |-> model_name,
                     author |-> "unknown",
                     description |-> Absent,
                     library_name |-> HubLibrary(model_name),
                     license |-> HubLicense(model_name),
                     model_size |-> estimate_model_size(HubFiles(model_name)),
                     files |-> HubFiles(model_name)]]
    ELSE [raised |-> TRUE, error |-> "MetadataFetchError"]

\* ---------------------------------------------------------------- document builder

\* Where generate_aibom's try block can fail.
BuildFaults == {"none", "manifest", "tempfile", "generate", "convert"}

\* uuid.uuid4(): the value drawn at a call site by one invocation of the builder (for
\* a finding of the file loop, the site is the file's position).  Two draws are equal
\* only if they are the same draw.
Uuid4(call, site) == <<call, site>>

\* _simulate_owasp_generator, the loop over the files: the component of a file, by
\* its suffix; none for any other suffix.
FileKind(file_name) ==
    IF EndsWith(file_name, {".bin", ".safetensors"}) THEN "model-weights"
    ELSE IF EndsWith(file_name, {".json"}) THEN "configuration"
    ELSE IF EndsWith(file_name, {".py"}) THEN "source-code"
    ELSE Absent

\* A check for "pickle" made for every file, whatever its suffix.
IsUnsafePy_any_suffix(file_name) == ContainsLower(file_name, "pickle")

\* The check for potentially unsafe Python files, made in the .py branch only.
IsUnsafePy(file_name) ==
    FileKind(file_name) = "source-code" /\ ContainsLower(file_name, "pickle")

\* A file loop that emits one component per file name, however often it is listed.
RECURSIVE FileComponents_once(_)
FileComponents_once(files) ==
    IF files = <<>> THEN <<>>
    ELSE LET init == FileComponents_once(SubSeq(files, 1, Len(files) - 1))
             last == files[Len(files)]
         IN IF FileKind(last) = Absent \/ \E c \in DOMAIN init : init[c].name = last
            THEN init
            ELSE Append(init, [type |-> FileKind(last), name |-> last])

RECURSIVE FileComponents(_)
FileComponents(files) ==
    IF files = <<>> THEN <<>>
    ELSE (IF FileKind(Head(files)) = Absent THEN <<>>
          ELSE <<[type |-> FileKind(Head(files)), name |-> Head(files)]>>)
         \o FileComponents(Tail(files))

RECURSIVE FileFindings(_, _, _)
FileFindings(files, call, pos) ==
    IF files = <<>> THEN <<>>
    ELSE (IF IsUnsafePy(Head(files))
          THEN <<[id |-> Uuid4(call, pos), severity |-> "high",
                  source |-> "AIBOM Security Analysis", ref |-> Head(files)]>>
          ELSE <<>>)
         \o FileFindings(Tail(files), call, pos + 1)

\* A license check that reports a missing license only.
LicenseFindings_none_only(model_info, call) ==
    IF model_info.license = Absent
    THEN <<[id |-> Uuid4(call, "license"), severity |-> "medium",
            source |-> "AIBOM License Analysis", ref |-> <<model_info.name>>]>>
    ELSE <<>>

\* _simulate_owasp_generator, the license check: license in [None, "unknown"].
LicenseFindings(model_info, call) ==
    IF model_info.license \in {Absent, "unknown"}
    THEN <<[id |-> Uuid4(call, "license"), severity |-> "medium",
            source |-> "AIBOM License Analysis", ref |-> <<model_info.name>>]>>
    ELSE <<>>

\* _simulate_owasp_generator: the CycloneDX mapping for a manifest.
simulate_owasp_generator(model_info, call) ==
    LET dependencies ==
            IF model_info.library_name # Absent
            THEN <<[type |-> "framework", name |-> <<model_info.library_name>>]>>
            ELSE <<>>
    IN [bom_format |-> "CycloneDX",
        spec_version |-> "1.5",
        serial_number |-> Uuid4(call, "serial"),
        subject |-> model_info.name,
        components |-> FileComponents(model_info.files),
        dependencies |-> dependencies,
        vulnerabilities |-> FileFindings(model_info.files, call, 1)
                            \o LicenseFindings(model_info, call),
        compositions |-> <<>>]

\* _create_basic_aibom: the fallback document, its serial number a new uuid.
create_basic_aibom(model_info, call) ==
    [bom_format |-> "CycloneDX",
     spec_version |-> "1.5",
     serial_number |-> Uuid4(call, "basic"),
     subject |-> model_info.name,
     components |-> <<[type |-> "machine-learning-model", name |-> <<model_info.name>>]>>,
     dependencies |-> <<>>,
     vulnerabilities |-> <<>>,
     compositions |-> <<>>]

\* A generate_aibom whose try block has no except clause: the failure leaves it.
generate_aibom_uncaught(model_info, fault, call) ==
    IF fault = "none"
    THEN [raised |-> FALSE, value |-> simulate_owasp_generator(model_info, call)]
    ELSE [raised |-> TRUE, error |-> "DocumentBuildError"]

\* generate_aibom: manifest, _run_owasp_generator, _convert_to_aibom (which copies the
\* generator's fields); any exception of the try block is caught and answered with the
\* basic AIBOM.
generate_aibom(model_info, fault, call) ==
    IF fault = "none"
    THEN [raised |-> FALSE, value |-> simulate_owasp_generator(model_info, call)]
    ELSE [raised |-> FALSE, value |-> create_basic_aibom(model_info, call)]

\* ---------------------------------------------------------------- risk interpreter

\* A reply of the reasoning service is a sequence of lexical pieces: prose, braces,
\* and "key": value members of a JSON object.
ProsePieces == {"prose"}
SecurityMembers ==
    {"score_7", "score_15", "score_str", "level_HIGH", "level_low", "level_num",
     "vulns_1", "vulns_null", "recs_2"}
InsightMembers == {"summary_s", "diffs_1", "diffs_num"}
MemberPieces == SecurityMembers \cup InsightMembers \cup {"other"}

\* The replies a pipeline's assessment draws from: no JSON at all, a well-typed object
\* inside prose, and objects whose values have the wrong JSON type.
SecurityReplies ==
    { <<"prose">>,
      <<"prose", "{", "score_7", "level_HIGH", "vulns_1", "}", "prose">>,
      <<"{", "level_num", "}">>,
      <<"{", "vulns_null", "}">> }

\* The replies the comparison's insights call draws from.
InsightReplies ==
    { <<"prose">>,
      <<"{", "summary_s", "diffs_1", "}">>,
      <<"{", "diffs_num", "}">> }

\* The reasoning service either raises or replies.
ReasoningOutcomes(replies) ==
    {[raised |-> TRUE, text |-> <<>>]} \cup {[raised |-> FALSE, text |-> r] : r \in replies}

\* str.find / str.rfind: the first / last index of a piece, 0-based, -1 when absent.
Find(response, piece) ==
    IF \E i \in DOMAIN response : response[i] = piece
    THEN (CHOOSE i \in DOMAIN response :
            response[i] = piece /\ \A j \in 1..(i - 1) : response[j] # piece) - 1
    ELSE -1

\* An rfind that stops at the first occurrence.
RFind_first(response, piece) == Find(response, piece)

RFind(response, piece) ==
    IF \E i \in DOMAIN response : response[i] = piece
    THEN (CHOOSE i \in DOMAIN response :
            response[i] = piece /\ \A j \in (i + 1)..Len(response) : response[j] # piece) - 1
    ELSE -1

\* response[start:end] for start >= -1 and end >= 0: a start of -1 is the last index.
Slice(response, start, end) ==
    LET n == Len(response)
        lo == IF start < 0 THEN (IF n + start < 0 THEN 0 ELSE n + start) ELSE start
        hi == IF end > n THEN n ELSE end
    IN IF lo >= hi THEN <<>> ELSE SubSeq(response, lo + 1, hi)

\* The key of a member piece.
MemberKey(piece) ==
    IF piece \in {"score_7", "score_15", "score_str"} THEN "risk_score"
    ELSE IF piece \in {"level_HIGH", "level_low", "level_num"} THEN "risk_level"
    ELSE IF piece \in {"vulns_1", "vulns_null"} THEN "vulnerabilities"
    ELSE IF piece = "recs_2" THEN "recommendations"
    ELSE IF piece = "summary_s" THEN "summary"
    ELSE IF piece \in {"diffs_1", "diffs_num"} THEN "key_differences"
    ELSE "other"

\* json.loads of the slice: an object is "{", members, "}"; anything else is an error.
JsonLoads(json_str) ==
    IF /\ Len(json_str) >= 2
       /\ json_str[1] = "{"
       /\ json_str[Len(json_str)] = "}"
       /\ \A i \in 2..(Len(json_str) - 1) : json_str[i] \in MemberPieces
    THEN [raised |-> FALSE, value |-> SubSeq(json_str, 2, Len(json_str) - 1)]
    ELSE [raised |-> TRUE, value |-> <<>>]

\* data.get(key): the member of that key (the last one when the key repeats), Absent
\* when the object has none.
Get(data, key) ==
    LET at == {i \in DOMAIN data : MemberKey(data[i]) = key}
    IN IF at = {} THEN Absent ELSE data[CHOOSE i \in at : \A j \in at : j <= i]

\* A list-typed field: what the reply gave, a list of len items or a non-list value.
ListOf(n) == [islist |-> TRUE, len |-> n]

NotAList == [islist |-> FALSE, len |-> 0]

DefaultRiskScore == 50

\* _create_default_security_analysis
create_default_security_analysis ==
    [risk_score |-> DefaultRiskScore,
     risk_level |-> "MEDIUM",
     level_is_str |-> TRUE,
     vulnerabilities |-> ListOf(0),
     compliance_issues |-> ListOf(0),
     recommendations |-> ListOf(1)]

\* _parse_security_analysis: slice from the first "{" to the last "}", json.loads,
\* data.get(key, default) for each field with no check of the value's type except
\* float(risk_score); any exception gives the default record.
parse_security_analysis(response) ==
    LET json_str == Slice(response, Find(response, "{"), RFind(response, "}") + 1)
        data == JsonLoads(json_str)
        score == Get(data.value, "risk_score")
        level == Get(data.value, "risk_level")
        vulns == Get(data.value, "vulnerabilities")
        recs == Get(data.value, "recommendations")
    IN IF data.raised \/ score = "score_str"
       THEN create_default_security_analysis
       ELSE [risk_score |-> IF score = "score_7" THEN 75
                            ELSE IF score = "score_15" THEN 150 ELSE DefaultRiskScore,
             risk_level |-> IF level = "level_num" THEN "7"
                            ELSE IF level = "level_HIGH" THEN "HIGH"
                            ELSE IF level = "level_low" THEN "low" ELSE "MEDIUM",
             level_is_str |-> level # "level_num",
             vulnerabilities |-> IF vulns = "vulns_null" THEN NotAList
                                 ELSE IF vulns = "vulns_1" THEN ListOf(1) ELSE ListOf(0),
             compliance_issues |-> ListOf(0),
             recommendations |-> IF recs = "recs_2" THEN ListOf(2) ELSE ListOf(0)]

\* analyze_security: prompt, _invoke_bedrock_model, parse; any exception gives the
\* default record.
analyze_security(outcome) ==
    IF outcome.raised
    THEN [raised |-> FALSE, value |-> create_default_security_analysis]
    ELSE [raised |-> FALSE, value |-> parse_security_analysis(outcome.text)]

\* _create_default_comparison_insights
create_default_comparison_insights ==
    [summary |-> "Comparison analysis completed with limited insights",
     key_differences |-> ListOf(1)]

\* _parse_comparison_insights: same slicing and json.loads, data.get for each field.
parse_comparison_insights(response) ==
    LET json_str == Slice(response, Find(response, "{"), RFind(response, "}") + 1)
        data == JsonLoads(json_str)
        diffs == Get(data.value, "key_differences")
    IN IF data.raised
       THEN create_default_comparison_insights
       ELSE [summary |-> IF Get(data.value, "summary") = Absent THEN "Analysis completed" ELSE "s",
             key_differences |-> IF diffs = "diffs_num" THEN NotAList
                                 ELSE IF diffs = "diffs_1" THEN ListOf(1) ELSE ListOf(0)]

\* generate_comparison_insights: prompt, _invoke_bedrock_model, parse; any exception
\* gives the default insights.
generate_comparison_insights(outcome) ==
    IF outcome.raised
    THEN [raised |-> FALSE, value |-> create_default_comparison_insights]
    ELSE [raised |-> FALSE, value |-> parse_comparison_insights(outcome.text)]

\* ---------------------------------------------------------------- report sink

\* generate_single_model_report: the template calls risk_level.lower() and writes the
\* file; a template or I/O exception is re-raised.
generate_single_model_report(result, io) ==
    IF ~result.security_analysis.level_is_str
    THEN [raised |-> TRUE, error |-> "TemplateError"]
    ELSE IF io = "fail"
    THEN [raised |-> TRUE, error |-> "ReportSinkError"]
    ELSE [raised |-> FALSE, value |-> "aibom_report.html"]

\* generate_comparison_report: the template iterates insights.key_differences and
\* takes the length of every result's vulnerabilities; exceptions are re-raised.
generate_comparison_report(result, io) ==
    IF \/ ~result.insights.key_differences.islist
       \/ \E i \in DOMAIN result.individual_results :
            \/ ~result.individual_results[i].security_analysis.vulnerabilities.islist
            \/ ~result.individual_results[i].security_analysis.level_is_str
    THEN [raised |-> TRUE, error |-> "TemplateError"]
    ELSE IF io = "fail"
    THEN [raised |-> TRUE, error |-> "ReportSinkError"]
    ELSE [raised |-> FALSE, value |-> "aibom_comparison.html"]

\* ---------------------------------------------------------------- comparison engine

\* The keys of a dict filled in sequence order: each name once, at its first position.
RECURSIVE DictKeys(_)
DictKeys(names) ==
    IF names = <<>> THEN <<>>
    ELSE LET init == DictKeys(SubSeq(names, 1, Len(names) - 1))
             last == names[Len(names)]
         IN IF last \in Range(init) THEN init ELSE Append(init, last)

\* The value a dict filled in sequence order holds for a key: the last one written.
LastFor(results, name) ==
    results[CHOOSE i \in DOMAIN results :
                /\ results[i].model_name = name
                /\ \A j \in DOMAIN results : results[j].model_name = name => j <= i]

\* A max / min that keeps the last of several extreme keys.
FirstExtreme_last_tie(keys, vals, sign) ==
    IF keys = <<>> THEN ""
    ELSE keys[CHOOSE i \in DOMAIN keys :
                /\ \A j \in DOMAIN keys : sign * vals[j] <= sign * vals[i]
                /\ \A j \in (i + 1)..Len(keys) : sign * vals[j] < sign * vals[i]]

\* max(d, key=d.get) (sign 1) / min(d, key=d.get) (sign -1) over a dict with these
\* keys and values: the first key in dict order with the extreme value.
FirstExtreme(keys, vals, sign) ==
    IF keys = <<>> THEN ""
    ELSE keys[CHOOSE i \in DOMAIN keys :
                /\ \A j \in DOMAIN keys : sign * vals[j] <= sign * vals[i]
                /\ \A j \in 1..(i - 1) : sign * vals[j] < sign * vals[i]]

\* {comp.get('name', '') for comp in components}
CompNames(components) == {components[i].name : i \in DOMAIN components}

\* {name: comp for comp in components}: one entry per name, at the place of the name's
\* first component, holding its last one.
ByName(components) ==
    LET names == DictKeys([i \in DOMAIN components |-> components[i].name])
    IN [k \in DOMAIN names |->
            components[CHOOSE i \in DOMAIN components :
                /\ components[i].name = names[k]
                /\ \A j \in DOMAIN components : components[j].name = names[k] => j <= i]]

\* A _find_common_components that reports what any other model shares with the first.
find_common_components_any(keys, all_components) ==
    IF keys = <<>> THEN <<>>
    ELSE LET first_model_components == ByName(all_components[1])
             is_common(comp) ==
                \E k \in 2..Len(keys) : comp.name \in CompNames(all_components[k])
             annotate(comp) ==
                [type |-> comp.type, name |-> comp.name, found_in_models |-> keys]
             common == SelectSeq(first_model_components, is_common)
         IN [i \in DOMAIN common |-> annotate(common[i])]

\* _find_common_components over the dict of _extract_all_components (keys in dict
\* order, all_components[k] the components under keys[k]): the entries of the first
\* model whose name every other model has, each with found_in_models added.
find_common_components(keys, all_components) ==
    IF keys = <<>> THEN <<>>
    ELSE LET first_model_components == ByName(all_components[1])
             is_common(comp) ==
                \A k \in 2..Len(keys) : comp.name \in CompNames(all_components[k])
             annotate(comp) ==
                [type |-> comp.type, name |-> comp.name, found_in_models |-> keys]
             common == SelectSeq(first_model_components, is_common)
         IN [i \in DOMAIN common |-> annotate(common[i])]

\* A _find_unique_components that goes through a model's components by name, one
\* per name.
find_unique_components_by_name(keys, all_components) ==
    [k \in DOMAIN keys |->
        LET is_unique(comp) ==
                \A o \in DOMAIN keys : o # k => comp.name \notin CompNames(all_components[o])
        IN SelectSeq(ByName(all_components[k]), is_unique)]

\* _find_unique_components: per model, its components whose name no other model has.
find_unique_components(keys, all_components) ==
    [k \in DOMAIN keys |->
        LET is_unique(comp) ==
                \A o \in DOMAIN keys : o # k => comp.name \notin CompNames(all_components[o])
        IN SelectSeq(all_components[k], is_unique)]

\* sum(valid_sizes)
RECURSIVE SeqSum(_)
SeqSum(xs) == IF xs = <<>> THEN 0 ELSE Head(xs) + SeqSum(Tail(xs))

\* valid_sizes: the sizes of the results, one per result, that are truthy.
RECURSIVE ValidSizes(_)
ValidSizes(results) ==
    IF results = <<>> THEN <<>>
    ELSE LET model_size == Head(results).model_info.model_size
         IN (IF model_size.known /\ model_size.v # 0 THEN <<model_size.v>> ELSE <<>>)
            \o ValidSizes(Tail(results))

\* A _compare_sizes that averages over all the results.
compare_sizes_over_all(keys, results) ==
    LET valid_sizes == ValidSizes(results)
        inf == 1 + SeqSum(valid_sizes)
        size(k) == LastFor(results, keys[k]).model_info.model_size
    IN IF valid_sizes = <<>>
       THEN [largest_model |-> "", smallest_model |-> "", average_size |-> [sum |-> 0, n |-> 1]]
       ELSE [largest_model |->
                FirstExtreme(keys, [k \in DOMAIN keys |-> IF size(k).known THEN size(k).v ELSE 0], 1),
             smallest_model |->
                FirstExtreme(keys, [k \in DOMAIN keys |->
                                        IF size(k).known /\ size(k).v # 0 THEN size(k).v ELSE inf], -1),
             average_size |-> [sum |-> SeqSum(valid_sizes), n |-> Len(results)]]

\* _compare_sizes: sizes is keyed by model name; largest is max with a missing size
\* read as 0, smallest is min with a missing (or zero) size read as infinity (here:
\* more than every size), average_size is sum(valid_sizes) / len(valid_sizes), held
\* as the fraction sum / n, and 0 when no size is valid.
compare_sizes(keys, results) ==
    LET valid_sizes == ValidSizes(results)
        inf == 1 + SeqSum(valid_sizes)
        size(k) == LastFor(results, keys[k]).model_info.model_size
    IN IF valid_sizes = <<>>
       THEN [largest_model |-> "", smallest_model |-> "", average_size |-> [sum |-> 0, n |-> 1]]
       ELSE [largest_model |->
                FirstExtreme(keys, [k \in DOMAIN keys |-> IF size(k).known THEN size(k).v ELSE 0], 1),
             smallest_model |->
                FirstExtreme(keys, [k \in DOMAIN keys |->
                                        IF size(k).known /\ size(k).v # 0 THEN size(k).v ELSE inf], -1),
             average_size |-> [sum |-> SeqSum(valid_sizes), n |-> Len(valid_sizes)]]

\* if model_license: a license that is neither None nor the empty string.
HasLicense(result) == result.model_info.license \notin {Absent, ""}

\* A _compare_licenses for which one holder makes a license common.
compare_licenses_any_count(keys, results) ==
    LET licensed == SelectSeq(results, HasLicense)
        NoLicense(r) == ~HasLicense(r)
        unlicensed == SelectSeq(results, NoLicense)
    IN [licenses_by_model |-> [k \in DOMAIN keys |-> LastFor(results, keys[k]).model_info.license],
        unlicensed_models |-> [i \in DOMAIN unlicensed |-> unlicensed[i].model_name],
        common_licenses |-> DictKeys([i \in DOMAIN licensed |-> licensed[i].model_info.license])]

\* _compare_licenses: licenses_by_model is keyed by model name; unlicensed_models is
\* appended to once per result without license; license_counts counts the results
\* holding each license, and common_licenses are its keys, in dict order, whose
\* count exceeds 1.
compare_licenses(keys, results) ==
    LET licensed == SelectSeq(results, HasLicense)
        NoLicense(r) == ~HasLicense(r)
        unlicensed == SelectSeq(results, NoLicense)
        license_counts == DictKeys([i \in DOMAIN licensed |-> licensed[i].model_info.license])
        count(license) ==
            Cardinality({i \in DOMAIN licensed : licensed[i].model_info.license = license})
        multiple(license) == count(license) > 1
    IN [licenses_by_model |-> [k \in DOMAIN keys |-> LastFor(results, keys[k]).model_info.license],
        unlicensed_models |-> [i \in DOMAIN unlicensed |-> unlicensed[i].model_name],
        common_licenses |-> SelectSeq(license_counts, multiple)]

\* {dep.get('name', '') for dep in the dependencies held under a key}
DepNames(dependencies) == {dependencies[i].name : i \in DOMAIN dependencies}

\* An _analyze_dependencies that reports the names any model depends on.
analyze_dependencies_union(keys, results) ==
    LET all_deps == [k \in DOMAIN keys |-> DepNames(LastFor(results, keys[k]).aibom.dependencies)]
    IN [dependencies_by_model |->
            [k \in DOMAIN keys |-> LastFor(results, keys[k]).aibom.dependencies],
        common_dependencies |->
            IF keys = <<>> THEN {}
            ELSE {name \in all_deps[1] : \E k \in DOMAIN keys : name \in all_deps[k]}]

\* _analyze_dependencies: all_deps is keyed by model name and holds each model's
\* dependencies by name; common_dep_names starts as the first model's names and is
\* intersected with every other model's.  list(set) has no defined order, so
\* common_dependencies is held as a set.
analyze_dependencies(keys, results) ==
    LET all_deps == [k \in DOMAIN keys |-> DepNames(LastFor(results, keys[k]).aibom.dependencies)]
    IN [dependencies_by_model |->
            [k \in DOMAIN keys |-> LastFor(results, keys[k]).aibom.dependencies],
        common_dependencies |->
            IF keys = <<>> THEN {}
            ELSE {name \in all_deps[1] : \A k \in DOMAIN keys : name \in all_deps[k]}]

\* ComparisonEngine.compare_models: the per-model dicts are keyed by model name;
\* len() of a non-list vulnerabilities or compliance_issues raises, and the except
\* clause re-raises.  Nothing in it looks at the length of results.
engine_compare_models(results) ==
    IF \E i \in DOMAIN results :
            \/ ~results[i].security_analysis.vulnerabilities.islist
            \/ ~results[i].security_analysis.compliance_issues.islist
    THEN [raised |-> TRUE, error |-> "TypeError"]
    ELSE LET keys == DictKeys([i \in DOMAIN results |-> results[i].model_name])
             all_components == [k \in DOMAIN keys |-> LastFor(results, keys[k]).aibom.components]
             risk_scores ==
                [i \in DOMAIN keys |-> LastFor(results, keys[i]).security_analysis.risk_score]
         IN [raised |-> FALSE,
             value |-> [models |-> keys,
                        common_components |-> find_common_components(keys, all_components),
                        unique_components |-> find_unique_components(keys, all_components),
                        size_comparison |-> compare_sizes(keys, results),
                        sizes_by_model |->
                            [k \in DOMAIN keys |->
                                LastFor(results, keys[k]).model_info.model_size],
                        license_comparison |-> compare_licenses(keys, results),
                        dependency_analysis |-> analyze_dependencies(keys, results),
                        risk_scores |-> risk_scores,
                        risk_levels |->
                            [k \in DOMAIN keys |->
                                LastFor(results, keys[k]).security_analysis.risk_level],
                        vulnerability_counts |->
                            [k \in DOMAIN keys |->
                                LastFor(results, keys[k]).security_analysis.vulnerabilities.len],
                        highest_risk_model |-> FirstExtreme(keys, risk_scores, 1),
                        lowest_risk_model |-> FirstExtreme(keys, risk_scores, -1)]]

\* ---------------------------------------------------------------- pipeline coordinator

\* An analyze_single_model coroutine at its first await: nothing fetched yet.
\* stages and fetches log the stages that returned and the fetch attempts; build_log
\* is what the builder last logged (the failure it caught, "none" for success), kept
\* until the next stage returns.
NewPipe(model_name, occ) ==
    [name |-> model_name, occ |-> occ, pc |-> "fetching", stages |-> <<>>, fetches |-> 0,
     model_info |-> Absent, aibom |-> Absent, build_log |-> Absent,
     security_analysis |-> Absent, report_path |-> Absent, error |-> Absent]

\* An analyze_single_model that assesses the risk before it builds the document.
NextPc_assess_first(pc) ==
    CASE pc = "fetching" -> "assessing"
      [] pc = "assessing" -> "building"
      [] pc = "building" -> "reporting"
      [] pc = "reporting" -> "done"

\* The statement analyze_single_model awaits after the one at pc.
NextPc(pc) ==
    CASE pc = "fetching" -> "building"
      [] pc = "building" -> "assessing"
      [] pc = "assessing" -> "reporting"
      [] pc = "reporting" -> "done"

\* An except clause that fetches the metadata once more before it gives up.
on_pipeline_error_retry(p, error) ==
    IF p.pc = "fetching" /\ p.fetches < 2
    THEN p
    ELSE [NewPipe(p.name, p.occ) EXCEPT
            !.pc = "failed", !.error = error, !.stages = p.stages, !.fetches = p.fetches]

\* analyze_single_model's except clause: log and re-raise; the frame's locals are gone.
on_pipeline_error(p, error) ==
    [NewPipe(p.name, p.occ) EXCEPT
        !.pc = "failed", !.error = error, !.stages = p.stages, !.fetches = p.fetches]

\* The AnalysisResult a completed pipeline returned.
Result(p) ==
    [model_name |-> p.name, occ |-> p.occ, model_info |-> p.model_info, aibom |-> p.aibom,
     security_analysis |-> p.security_analysis, report_path |-> p.report_path]

Terminated(p) == p.pc \in {"done", "failed", "cancelled"}

\* A gather with return_exceptions: it returns once every task has ended, failed or not.
gather_done_partial(ps) == \A i \in DOMAIN ps : ps[i].pc \in {"done", "failed"}

\* A wait for the first completed task instead of a gather.
gather_done_first(ps) == \E i \in DOMAIN ps : ps[i].pc = "done"

\* asyncio.gather(*tasks), when it returns to its awaiter: every task has a result.
gather_done(ps) == \A i \in DOMAIN ps : ps[i].pc = "done"

\* asyncio.gather(*tasks), when it raises to its awaiter: some task has raised (the
\* other tasks are neither awaited nor cancelled).
gather_raised(ps) == \E i \in DOMAIN ps : ps[i].pc = "failed"

\* An as_completed loop instead of a gather: the results in the order of completion.
gather_results_as_completed(ps, order) == [k \in DOMAIN order |-> Result(ps[order[k]])]

\* asyncio.gather's value: the results in the order of the awaitables, whatever the
\* order of completion.
gather_results(ps, order) == [i \in DOMAIN ps |-> Result(ps[i])]

\* A compare_models that asks for the insights before it runs the engine.
CmpNextPc_insights_first(pc) ==
    CASE pc = "gather" -> "insights"
      [] pc = "insights" -> "engine"
      [] pc = "engine" -> "report"
      [] pc = "report" -> "done"

\* The statement compare_models awaits after the one at pc.
CmpNextPc(pc) ==
    CASE pc = "gather" -> "engine"
      [] pc = "engine" -> "insights"
      [] pc = "insights" -> "report"
      [] pc = "report" -> "done"

NoCompare ==
    [pc |-> "none", individual_results |-> <<>>, comparison |-> Absent, insights |-> Absent,
     report_path |-> Absent, error |-> Absent]

\* compare_models's except clause: log and re-raise.
on_compare_error(c, error) == [NoCompare EXCEPT !.pc = "failed", !.error = error]

\* How often compare_models has called, and got a value back from, the comparison
\* engine, the insights call and the comparison report.
NoCalls ==
    [engine |-> 0, insights |-> 0, report |-> 0,
     engine_ret |-> 0, insights_ret |-> 0, report_ret |-> 0]

\* ---------------------------------------------------------------- request handler

NoResponse ==
    [kind |-> "none", success |-> Absent, error |-> Absent, action |-> Absent,
     supported_actions |-> <<>>, report_path |-> Absent]

NoOrchestrator == [exists |-> FALSE, session_id |-> Absent, initialized |-> FALSE]

\* An invoke that lets a one-name list through to compare_models.
validate_one_name(payload) ==
    IF payload.action = "analyze_model"
    THEN IF payload.model_name = Absent
         THEN [NoResponse EXCEPT !.kind = "returned",
                                 !.error = "model_name is required for analyze_model action"]
         ELSE NoResponse
    ELSE IF payload.action = "compare_models"
    THEN IF Len(payload.model_names) < 1
         THEN [NoResponse EXCEPT !.kind = "returned",
                                 !.error = "At least 2 model names required for compare_models action"]
         ELSE NoResponse
    ELSE [NoResponse EXCEPT !.kind = "returned",
                            !.error = "Unknown action",
                            !.supported_actions = SupportedActions]

\* invoke's checks of the payload: the error response, or NoResponse for a request to run.
validate(payload) ==
    IF payload.action = "analyze_model"
    THEN IF payload.model_name = Absent
         THEN [NoResponse EXCEPT !.kind = "returned",
                                 !.error = "model_name is required for analyze_model action"]
         ELSE NoResponse
    ELSE IF payload.action = "compare_models"
    THEN IF Len(payload.model_names) < 2
         THEN [NoResponse EXCEPT !.kind = "returned",
                                 !.error = "At least 2 model names required for compare_models action"]
         ELSE NoResponse
    ELSE [NoResponse EXCEPT !.kind = "returned",
                            !.error = "Unknown action",
                            !.supported_actions = SupportedActions]

\* An invoke without its except clause: the exception leaves the handler.
invoke_uncaught(payload, error) ==
    [NoResponse EXCEPT !.kind = "raised", !.error = error]

\* invoke's except clause: payload.get("action", "unknown") is the action the request
\* carries, "unknown" when it carries none.
invoke_except(payload, error) ==
    [NoResponse EXCEPT !.kind = "returned", !.success = "false", !.error = error,
                       !.action = IF payload.action = Absent THEN "unknown" ELSE payload.action]

\* invoke's response to a completed analyze_model: security_issues_count is
\* len(vulnerabilities), which raises for a non-list into the except clause.
analyze_response(payload, result) ==
    IF ~result.security_analysis.vulnerabilities.islist
       \/ ~result.security_analysis.compliance_issues.islist
    THEN invoke_except(payload, "TypeError")
    ELSE [NoResponse EXCEPT !.kind = "returned", !.success = "true",
                            !.action = "analyze_model", !.report_path = result.report_path]

\* invoke's response to a completed compare_models.
compare_response(payload, c) ==
    [NoResponse EXCEPT !.kind = "returned", !.success = "true",
                       !.action = "compare_models", !.report_path = c.report_path]

\* What asyncio.run(coroutine) starts once the orchestrator is initialized: one
\* pipeline, or compare_models with one pipeline per name of the list.
StartedPipes(payload) ==
    IF payload.action = "analyze_model"
    THEN <<NewPipe(payload.model_name, 1)>>
    ELSE [i \in DOMAIN payload.model_names |-> NewPipe(payload.model_names[i], i)]

StartedCompare(payload) ==
    IF payload.action = "analyze_model" THEN NoCompare ELSE [NoCompare EXCEPT !.pc = "gather"]

\* ---------------------------------------------------------------- actions

\* The process before its first request.
MainIdle ==
    /\ orchestrator = NoOrchestrator
    /\ inv = [pc |-> "idle", payload |-> Absent, session |-> Absent, resp |-> NoResponse]
    /\ cmp = NoCompare
    /\ pipes = <<>>
    /\ finished = <<>>
    /\ calls = NoCalls
    /\ served = 0

\* The services not being exercised on their own.
RiskIdle ==
    /\ reply = [raised |-> FALSE, text |-> <<>>]
    /\ analysis = [done |-> FALSE]
    /\ reply_insights = [done |-> FALSE]

EngineIdle ==
    /\ engine_results = <<>>
    /\ engine_out = [done |-> FALSE]

BuildIdle ==
    /\ builds = <<>>
    /\ temp_dir = {}
    /\ dir_exists = TRUE

\* A coordinator object as its constructor leaves it: _initialized False, no service
\* initialized.
NewSystem ==
    [initialized |-> FALSE, runs |-> [hf_service |-> 0, aibom_generator |-> 0, bedrock_agent |-> 0]]

SysIdle ==
    /\ system = NewSystem
    /\ callers = <<>>

Init == MainIdle /\ RiskIdle /\ EngineIdle /\ BuildIdle /\ SysIdle

\* The process waits for a request.
Accepting == inv.pc = "idle"

Respond(payload, session, resp) ==
    /\ inv' = [pc |-> "responded", payload |-> payload, session |-> session, resp |-> resp]
    /\ served' = served + 1

\* invoke, get_orchestrator raising while it creates the orchestrator (Settings.load,
\* the constructors): the except clause answers.
InvokeCreateFails(payload, session) ==
    /\ Accepting
    /\ ~orchestrator.exists
    /\ Respond(payload, session, invoke_except(payload, "CreateError"))
    /\ cmp' = NoCompare /\ pipes' = <<>> /\ finished' = <<>> /\ calls' = NoCalls
    /\ UNCHANGED orchestrator
    /\ UNCHANGED <<riskVars, engineVars, buildVars, sysVars>>

\* get_orchestrator: the module-level instance, created with this session on first use.
GetOrchestrator(session) ==
    IF orchestrator.exists THEN orchestrator
    ELSE [exists |-> TRUE, session_id |-> session, initialized |-> FALSE]

\* invoke, a payload that fails validation: answered without running anything.
InvokeRejected(payload, session) ==
    /\ Accepting
    /\ validate(payload).kind = "returned"
    /\ orchestrator' = GetOrchestrator(session)
    /\ Respond(payload, session, validate(payload))
    /\ cmp' = NoCompare /\ pipes' = <<>> /\ finished' = <<>> /\ calls' = NoCalls
    /\ UNCHANGED <<riskVars, engineVars, buildVars, sysVars>>

\* invoke, a valid payload: asyncio.run starts the coroutine, which first awaits
\* initialize() unless the orchestrator is initialized already.
InvokeStart(payload, session) ==
    /\ Accepting
    /\ validate(payload).kind = "none"
    /\ orchestrator' = GetOrchestrator(session)
    /\ LET ready == orchestrator'.initialized
       IN /\ inv' = [pc |-> IF ready THEN "running" ELSE "initializing",
                     payload |-> payload, session |-> session, resp |-> NoResponse]
          /\ pipes' = IF ready THEN StartedPipes(payload) ELSE <<>>
          /\ cmp' = IF ready THEN StartedCompare(payload) ELSE NoCompare
    /\ finished' = <<>> /\ calls' = NoCalls
    /\ UNCHANGED served
    /\ UNCHANGED <<riskVars, engineVars, buildVars, sysVars>>

\* AIBOMAgentOrchestrator.initialize: the three services; an exception leaves
\* _initialized False and reaches invoke's except clause.
Initialize(outcome) ==
    /\ inv.pc = "initializing"
    /\ IF outcome = "ok"
       THEN /\ orchestrator' = [orchestrator EXCEPT !.initialized = TRUE]
            /\ inv' = [inv EXCEPT !.pc = "running"]
            /\ pipes' = StartedPipes(inv.payload)
            /\ cmp' = StartedCompare(inv.payload)
            /\ UNCHANGED served
       ELSE /\ Respond(inv.payload, inv.session, invoke_except(inv.payload, "InitError"))
            /\ UNCHANGED <<orchestrator, pipes, cmp>>
    /\ UNCHANGED <<finished, calls>>
    /\ UNCHANGED <<riskVars, engineVars, buildVars, sysVars>>

\* Step 1 of analyze_single_model: await hf_service.get_model_info.
Fetch(i, outcome) ==
    /\ inv.pc = "running"
    /\ pipes[i].pc = "fetching"
    /\ LET p == [pipes[i] EXCEPT !.fetches = @ + 1]
           r == get_model_info(p.name, outcome)
       IN pipes' = [pipes EXCEPT ![i] =
            IF r.raised THEN on_pipeline_error(p, r.error)
            ELSE [p EXCEPT !.model_info = r.value, !.pc = NextPc("fetching"),
                           !.stages = Append(@, "fetch")]]
    /\ UNCHANGED <<orchestrator, inv, cmp, finished, calls, served>>
    /\ UNCHANGED <<riskVars, engineVars, buildVars, sysVars>>

\* Step 2: await aibom_generator.generate_aibom.
Build(i, fault) ==
    /\ inv.pc = "running"
    /\ pipes[i].pc = "building"
    /\ LET p == pipes[i]
           r == generate_aibom(p.model_info, fault, i)
       IN pipes' = [pipes EXCEPT ![i] =
            IF r.raised THEN on_pipeline_error(p, r.error)
            ELSE [p EXCEPT !.aibom = r.value, !.build_log = fault,
                           !.pc = NextPc("building"), !.stages = Append(@, "build")]]
    /\ UNCHANGED <<orchestrator, inv, cmp, finished, calls, served>>
    /\ UNCHANGED <<riskVars, engineVars, buildVars, sysVars>>

\* Steps 3 and 4: await bedrock_agent.analyze_security, then build the AnalysisResult.
Assess(i, outcome) ==
    /\ inv.pc = "running"
    /\ pipes[i].pc = "assessing"
    /\ LET p == pipes[i]
           r == analyze_security(outcome)
       IN pipes' = [pipes EXCEPT ![i] =
            IF r.raised THEN on_pipeline_error(p, r.error)
            ELSE [p EXCEPT !.security_analysis = r.value, !.build_log = Absent,
                           !.pc = NextPc("assessing"),
                           !.stages = @ \o <<"assess", "assemble">>]]
    /\ UNCHANGED <<orchestrator, inv, cmp, finished, calls, served>>
    /\ UNCHANGED <<riskVars, engineVars, buildVars, sysVars>>

\* Step 5: await report_generator.generate_single_model_report, then return.
Report(i, io) ==
    /\ inv.pc = "running"
    /\ pipes[i].pc = "reporting"
    /\ LET p == pipes[i]
           r == generate_single_model_report(Result(p), io)
       IN /\ pipes' = [pipes EXCEPT ![i] =
                IF r.raised THEN on_pipeline_error(p, r.error)
                ELSE [p EXCEPT !.report_path = r.value, !.pc = NextPc("reporting"),
                               !.stages = Append(@, "report")]]
          /\ finished' = IF r.raised \/ NextPc("reporting") # "done" THEN finished
                         ELSE Append(finished, i)
    /\ UNCHANGED <<orchestrator, inv, cmp, calls, served>>
    /\ UNCHANGED <<riskVars, engineVars, buildVars, sysVars>>

\* compare_models, gather returning: the results go to the comparison engine.
GatherReturn ==
    /\ inv.pc = "running"
    /\ cmp.pc = "gather"
    /\ gather_done(pipes)
    /\ cmp' = [cmp EXCEPT !.individual_results = gather_results(pipes, finished),
                          !.pc = CmpNextPc("gather")]
    /\ UNCHANGED <<orchestrator, inv, pipes, finished, calls, served>>
    /\ UNCHANGED <<riskVars, engineVars, buildVars, sysVars>>

\* compare_models, gather raising the failure of a task (the first one to fail; any
\* failed task here, which includes it): the except clause re-raises.
GatherRaise(i) ==
    /\ inv.pc = "running"
    /\ cmp.pc = "gather"
    /\ gather_raised(pipes)
    /\ pipes[i].pc = "failed"
    /\ cmp' = on_compare_error(cmp, pipes[i].error)
    /\ UNCHANGED <<orchestrator, inv, pipes, finished, calls, served>>
    /\ UNCHANGED <<riskVars, engineVars, buildVars, sysVars>>

\* Step 2 of compare_models: await comparison_engine.compare_models.
Engine ==
    /\ inv.pc = "running"
    /\ cmp.pc = "engine"
    /\ LET r == engine_compare_models(cmp.individual_results)
       IN cmp' = IF r.raised THEN on_compare_error(cmp, r.error)
                 ELSE [cmp EXCEPT !.comparison = r.value, !.pc = CmpNextPc("engine")]
    /\ calls' = [calls EXCEPT !.engine = @ + 1,
                               !.engine_ret = IF cmp'.pc = "failed" THEN @ ELSE @ + 1]
    /\ UNCHANGED <<orchestrator, inv, pipes, finished, served>>
    /\ UNCHANGED <<riskVars, engineVars, buildVars, sysVars>>

\* Step 3: await bedrock_agent.generate_comparison_insights.
Insights(outcome) ==
    /\ inv.pc = "running"
    /\ cmp.pc = "insights"
    /\ LET r == generate_comparison_insights(outcome)
       IN cmp' = IF r.raised THEN on_compare_error(cmp, r.error)
                 ELSE [cmp EXCEPT !.insights = r.value, !.pc = CmpNextPc("insights")]
    /\ calls' = [calls EXCEPT !.insights = @ + 1,
                               !.insights_ret = IF cmp'.pc = "failed" THEN @ ELSE @ + 1]
    /\ UNCHANGED <<orchestrator, inv, pipes, finished, served>>
    /\ UNCHANGED <<riskVars, engineVars, buildVars, sysVars>>

\* Steps 4 and 5: build the ComparisonResult, await generate_comparison_report, return.
CompareReport(io) ==
    /\ inv.pc = "running"
    /\ cmp.pc = "report"
    /\ LET result == [model_names |-> inv.payload.model_names,
                      individual_results |-> cmp.individual_results,
                      comparison |-> cmp.comparison,
                      insights |-> cmp.insights]
           r == generate_comparison_report(result, io)
       IN cmp' = IF r.raised THEN on_compare_error(cmp, r.error)
                 ELSE [cmp EXCEPT !.report_path = r.value, !.pc = CmpNextPc("report")]
    /\ calls' = [calls EXCEPT !.report = @ + 1,
                               !.report_ret = IF cmp'.pc = "failed" THEN @ ELSE @ + 1]
    /\ UNCHANGED <<orchestrator, inv, pipes, finished, served>>
    /\ UNCHANGED <<riskVars, engineVars, buildVars, sysVars>>

\* asyncio.run's shutdown: the tasks still pending are cancelled and awaited, and
\* the loop is closed; what the tasks held is released with it.
CancelPending(ps) ==
    [i \in DOMAIN ps |->
        [NewPipe(ps[i].name, ps[i].occ) EXCEPT
            !.pc = IF Terminated(ps[i]) THEN ps[i].pc ELSE "cancelled",
            !.error = ps[i].error, !.stages = ps[i].stages, !.fetches = ps[i].fetches]]

\* The compare_models coroutine once asyncio.run has returned its outcome.
Ended(c) == [NoCompare EXCEPT !.pc = c.pc, !.error = c.error]

\* asyncio.run(orch.analyze_single_model(model_name)) ends: invoke answers.
AnalyzeComplete ==
    /\ inv.pc = "running"
    /\ inv.payload.action = "analyze_model"
    /\ Terminated(pipes[1])
    /\ Respond(inv.payload, inv.session,
               IF pipes[1].pc = "done" THEN analyze_response(inv.payload, Result(pipes[1]))
               ELSE invoke_except(inv.payload, pipes[1].error))
    /\ pipes' = CancelPending(pipes)
    /\ finished' = <<>>
    /\ UNCHANGED <<orchestrator, cmp, calls>>
    /\ UNCHANGED <<riskVars, engineVars, buildVars, sysVars>>

\* asyncio.run(orch.compare_models(model_names)) ends, by return or by exception:
\* the pipelines still running are cancelled, then invoke answers.
CompareComplete ==
    /\ inv.pc = "running"
    /\ inv.payload.action = "compare_models"
    /\ cmp.pc \in {"done", "failed"}
    /\ pipes' = CancelPending(pipes)
    /\ Respond(inv.payload, inv.session,
               IF cmp.pc = "done" THEN compare_response(inv.payload, cmp)
               ELSE invoke_except(inv.payload, cmp.error))
    /\ cmp' = Ended(cmp)
    /\ finished' = <<>>
    /\ UNCHANGED <<orchestrator, calls>>
    /\ UNCHANGED <<riskVars, engineVars, buildVars, sysVars>>

Next ==
    \/ \E payload \in Payloads, session \in Sessions :
        \/ InvokeCreateFails(payload, session)
        \/ InvokeRejected(payload, session)
        \/ InvokeStart(payload, session)
    \/ \E outcome \in {"ok", "fail"} : Initialize(outcome)
    \/ \E i \in DOMAIN pipes :
        \/ \E outcome \in {"ok", "fail"} : Fetch(i, outcome)
        \/ \E fault \in BuildFaults : Build(i, fault)
        \/ \E outcome \in ReasoningOutcomes(SecurityReplies) : Assess(i, outcome)
        \/ \E io \in {"ok", "fail"} : Report(i, io)
    \/ GatherReturn
    \/ \E i \in DOMAIN pipes : GatherRaise(i)
    \/ Engine
    \/ \E outcome \in ReasoningOutcomes(InsightReplies) : Insights(outcome)
    \/ \E io \in {"ok", "fail"} : CompareReport(io)
    \/ AnalyzeComplete
    \/ CompareComplete

Spec == Init /\ [][Next]_vars

\* ---------------------------------------------------------------- requests in sequence

MaxRequests == 2        \* requests the process serves one after the other

\* The payloads of the requests served in sequence: single-model analyses and
\* payloads without a supported action.
SessionPayloads == {payload \in Payloads : payload.action # "compare_models"}

\* The runtime calls invoke again: the module-level orchestrator is what the requests
\* before left, everything local to the previous call is gone.
NextRequest ==
    /\ inv.pc = "responded"
    /\ served < MaxRequests
    /\ inv' = [pc |-> "idle", payload |-> Absent, session |-> Absent, resp |-> NoResponse]
    /\ pipes' = <<>> /\ cmp' = NoCompare /\ finished' = <<>> /\ calls' = NoCalls
    /\ UNCHANGED <<orchestrator, served>>
    /\ UNCHANGED <<riskVars, engineVars, buildVars, sysVars>>

NextSessions ==
    \/ \E payload \in SessionPayloads, session \in Sessions :
        \/ InvokeCreateFails(payload, session)
        \/ InvokeRejected(payload, session)
        \/ InvokeStart(payload, session)
    \/ \E outcome \in {"ok", "fail"} : Initialize(outcome)
    \/ \E i \in DOMAIN pipes :
        \/ \E outcome \in {"ok", "fail"} : Fetch(i, outcome)
        \/ \E fault \in BuildFaults : Build(i, fault)
        \/ \E outcome \in ReasoningOutcomes(SecurityReplies) : Assess(i, outcome)
        \/ \E io \in {"ok", "fail"} : Report(i, io)
    \/ AnalyzeComplete
    \/ NextRequest

SpecSessions == Init /\ [][NextSessions]_vars

\* ---------------------------------------------------------------- risk interpreter alone

MaxReplyLen == 3        \* longest reply text, in pieces

\* The pieces of a reply to analyze_security or generate_comparison_insights.
RiskPieces == ProsePieces \cup {"{", "}"} \cup MemberPieces

\* Every reply text of up to MaxReplyLen pieces, or the service raising.
InitRisk ==
    /\ MainIdle /\ EngineIdle /\ BuildIdle /\ SysIdle
    /\ reply \in ReasoningOutcomes(SeqsUpTo(RiskPieces, MaxReplyLen))
    /\ analysis = [done |-> FALSE]
    /\ reply_insights = [done |-> FALSE]

\* analyze_security called for the outcome.
AssessReply ==
    /\ ~analysis.done
    /\ analysis' = [done |-> TRUE, value |-> analyze_security(reply).value]
    /\ UNCHANGED <<reply, reply_insights, mainVars, engineVars, buildVars, sysVars>>

\* generate_comparison_insights called for the outcome.
InsightsReply ==
    /\ ~reply_insights.done
    /\ reply_insights' =
            [done |-> TRUE, value |-> generate_comparison_insights(reply).value]
    /\ UNCHANGED <<reply, analysis, mainVars, engineVars, buildVars, sysVars>>

NextRisk == AssessReply \/ InsightsReply

SpecRisk == InitRisk /\ [][NextRisk]_vars

\* ---------------------------------------------------------------- comparison engine alone

MaxResults == 3         \* longest list of results the engine is called with

EngineModels == {"a", "b", "c"}

\* The component lists and the sizes the results carry.
ComponentLists ==
    LET config == [type |-> "configuration", name |-> <<"config", ".json">>]
        weights == [type |-> "model-weights", name |-> <<"model", ".bin">>]
    IN {<<>>, <<config>>, <<weights>>, <<config, weights>>, <<weights, config, weights>>}

SizeValues == {NoSize, KnownSize(100), KnownSize(300)}

\* The risk scores (in tenths), licenses and dependency lists the results carry.
RiskScores == {20, 50, 80}

EngineLicenses == {Absent, "mit", "apache-2.0"}

DependencyLists ==
    LET torch == [type |-> "framework", name |-> <<"torch">>]
        transformers == [type |-> "framework", name |-> <<"transformers">>]
    IN {<<>>, <<torch>>, <<transformers>>, <<torch, transformers>>}

\* The AnalysisResult of a model, as far as the engine reads it.
EngineResult(model_name, components, model_size) ==
    [model_name |-> model_name,
     model_info |-> [name |-> model_name, model_size |-> model_size, license |-> Absent],
     aibom |-> [components |-> components, dependencies |-> <<>>],
     security_analysis |-> create_default_security_analysis]

\* The same with a risk score, a license and dependencies.
EngineProfile(model_name, risk_score, license, dependencies) ==
    [model_name |-> model_name,
     model_info |-> [name |-> model_name, model_size |-> NoSize, license |-> license],
     aibom |-> [components |-> <<>>, dependencies |-> dependencies],
     security_analysis |-> [create_default_security_analysis EXCEPT !.risk_score = risk_score]]

\* Every list of up to MaxResults results, of different models; the lists vary the
\* components and sizes, or the risk scores, or the licenses, or the dependencies.
InitEngine ==
    /\ MainIdle /\ RiskIdle /\ BuildIdle /\ SysIdle
    /\ \E names \in SeqsUpTo(EngineModels, MaxResults) :
        /\ \A i, j \in DOMAIN names : names[i] = names[j] => i = j
        /\ \/ \E components \in [1..MaxResults -> ComponentLists],
                 sizes \in [1..MaxResults -> SizeValues] :
                    engine_results =
                        [i \in DOMAIN names |-> EngineResult(names[i], components[i], sizes[i])]
           \/ \E scores \in [1..MaxResults -> RiskScores] :
                    engine_results =
                        [i \in DOMAIN names |-> EngineProfile(names[i], scores[i], "mit", <<>>)]
           \/ \E licenses \in [1..MaxResults -> EngineLicenses] :
                    engine_results =
                        [i \in DOMAIN names |->
                            EngineProfile(names[i], DefaultRiskScore, licenses[i], <<>>)]
           \/ \E dependencies \in [1..MaxResults -> DependencyLists] :
                    engine_results =
                        [i \in DOMAIN names |->
                            EngineProfile(names[i], DefaultRiskScore, "mit", dependencies[i])]
    /\ engine_out = [done |-> FALSE]

\* ComparisonEngine.compare_models called with the list.
EngineCompare ==
    /\ ~engine_out.done
    /\ LET r == engine_compare_models(engine_results)
       IN engine_out' = IF r.raised
                        THEN [done |-> TRUE, raised |-> TRUE, error |-> r.error]
                        ELSE [done |-> TRUE, raised |-> FALSE, value |-> r.value]
    /\ UNCHANGED <<engine_results, mainVars, riskVars, buildVars, sysVars>>

NextEngine == EngineCompare

SpecEngine == InitEngine /\ [][NextEngine]_vars

\* Every list of up to MaxResults results in which a model may occur more than once
\* (compare_models passes on one result per requested name, and a name may be
\* requested twice), with any risk scores.
InitEngineRepeats ==
    /\ MainIdle /\ RiskIdle /\ BuildIdle /\ SysIdle
    /\ \E names \in SeqsUpTo(EngineModels, MaxResults),
          scores \in [1..MaxResults -> RiskScores] :
            engine_results =
                [i \in DOMAIN names |-> EngineProfile(names[i], scores[i], "mit", <<>>)]
    /\ engine_out = [done |-> FALSE]

SpecEngineRepeats == InitEngineRepeats /\ [][NextEngine]_vars

\* ---------------------------------------------------------------- document builder alone

MaxFiles == 2           \* longest file list of the model being documented
MaxBuilds == 2          \* invocations of generate_aibom sharing the temp directory

\* The file names a repository listing can hold: weights, a Python file naming pickle
\* in mixed case, a Python file that does not, and a non-Python file naming pickle.
BuildFileNames ==
    { <<"model", ".bin">>, <<"Pickle", "_loader", ".py">>,
      <<"utils", ".py">>, <<"pickle", ".md">> }

BuildLicenses == {Absent, "unknown", "mit"}

\* The ModelInfo values handed to the builder: every listing of up to MaxFiles
\* different paths, with every license.
BuildInfos ==
    {[name |-> "a",
      author |-> "unknown",
      description |-> Absent,
      library_name |-> HubLibrary("a"),
      license |-> l,
      model_size |-> estimate_model_size(fs),
      files |-> fs] :
        l \in BuildLicenses,
        fs \in {f \in SeqsUpTo(BuildFileNames, MaxFiles) :
                    \A i, j \in DOMAIN f : f[i] = f[j] => i = j}}

\* f"{uuid.uuid4()}_manifest.json" under temp_dir.
TempName(uuid, suffix) == <<uuid, suffix>>

NoFile == TempName(Uuid4(0, "none"), "")

\* One invocation of generate_aibom before its first statement; created is the set of
\* files the invocation has brought into being so far.
NewBuild(model_info) ==
    [pc |-> "start", model_info |-> model_info,
     manifest_file |-> NoFile, output_file |-> NoFile,
     created |-> {}, fault |-> "none", fallback |-> FALSE,
     aibom |-> [bom_format |-> Absent]]

\* A finally clause that unlinks only when the try block succeeded.
unlink_on_success(dir, b) ==
    IF b.fault = "none" THEN dir \ {b.manifest_file, b.output_file} ELSE dir

\* _run_owasp_generator, the finally clause: both unlink(missing_ok=True).
unlink_temp_files(dir, b) == dir \ {b.manifest_file, b.output_file}

\* generate_aibom's return statement or its except clause; fault keeps what the
\* except clause logged ("none" for the return statement).
Returned(b, fault, call) ==
    [b EXCEPT !.pc = "returned",
              !.fault = fault,
              !.fallback = (fault # "none"),
              !.aibom = generate_aibom(b.model_info, fault, call).value]

\* Some invocations of the builder on one ModelInfo, in a temp directory that
\* __init__ created.
InitBuild ==
    /\ MainIdle /\ RiskIdle /\ EngineIdle /\ SysIdle
    /\ \E model_info \in BuildInfos, n \in 1..MaxBuilds :
            builds = [i \in 1..n |-> NewBuild(model_info)]
    /\ temp_dir = {}
    /\ dir_exists = TRUE

\* generate_aibom: _create_model_manifest, then _run_owasp_generator names its two
\* temporary files; a failure of the manifest goes to the except clause.
BuildManifest(i) ==
    /\ builds[i].pc = "start"
    /\ \E fault \in {"none", "manifest"} :
        builds' = [builds EXCEPT ![i] =
            IF fault = "none"
            THEN [@ EXCEPT !.pc = "writing",
                    !.manifest_file =
                        TempName(Uuid4(i, "manifest_file"), "_manifest.json"),
                    !.output_file =
                        TempName(Uuid4(i, "output_file"), "_aibom.json")]
            ELSE Returned(@, fault, i)]
    /\ UNCHANGED <<temp_dir, dir_exists, mainVars, riskVars, engineVars, sysVars>>

\* open(manifest_file, 'w') and json.dump: the file is there when both succeed; when
\* one raises the file may or may not have been created.  Without the directory
\* open raises FileNotFoundError ("nodir") and creates nothing.
BuildWrite(i) ==
    /\ builds[i].pc = "writing"
    /\ \/ /\ dir_exists
          /\ temp_dir' = temp_dir \cup {builds[i].manifest_file}
          /\ builds' = [builds EXCEPT ![i].pc = "generating",
                                      ![i].created = {builds[i].manifest_file}]
       \/ /\ ~dir_exists
          /\ temp_dir' = temp_dir
          /\ builds' = [builds EXCEPT ![i].pc = "finally", ![i].fault = "nodir"]
       \/ \E made \in {{}, {builds[i].manifest_file}} :
            /\ dir_exists
            /\ temp_dir' = temp_dir \cup made
            /\ builds' = [builds EXCEPT ![i].pc = "finally",
                                        ![i].fault = "tempfile",
                                        ![i].created = made]
    /\ UNCHANGED <<dir_exists, mainVars, riskVars, engineVars, sysVars>>

\* await self._simulate_owasp_generator(manifest, model_name).
BuildGenerate(i) ==
    /\ builds[i].pc = "generating"
    /\ \E fault \in {"none", "generate"} :
        builds' = [builds EXCEPT ![i].pc = "finally", ![i].fault = fault]
    /\ UNCHANGED <<temp_dir, dir_exists, mainVars, riskVars, engineVars, sysVars>>

\* The finally clause, then the return to generate_aibom or its except clause.
BuildFinally(i) ==
    /\ builds[i].pc = "finally"
    /\ temp_dir' = unlink_temp_files(temp_dir, builds[i])
    /\ builds' = [builds EXCEPT ![i] =
            IF @.fault = "none" THEN [@ EXCEPT !.pc = "converting"]
            ELSE Returned(@, @.fault, i)]
    /\ UNCHANGED <<dir_exists, mainVars, riskVars, engineVars, sysVars>>

\* _convert_to_aibom and the return, or the except clause.
BuildConvert(i) ==
    /\ builds[i].pc = "converting"
    /\ \E fault \in {"none", "convert"} :
        builds' = [builds EXCEPT ![i] = Returned(@, fault, i)]
    /\ UNCHANGED <<temp_dir, dir_exists, mainVars, riskVars, engineVars, sysVars>>

NextBuild ==
    \E i \in DOMAIN builds :
        \/ BuildManifest(i)
        \/ BuildWrite(i)
        \/ BuildGenerate(i)
        \/ BuildFinally(i)
        \/ BuildConvert(i)

SpecBuild == InitBuild /\ [][NextBuild]_vars

\* The file names of a ModelInfo handed to the builder by any caller: one of every
\* recognized suffix and one of another suffix.
ListingNames ==
    { <<"model", ".bin">>, <<"model", ".safetensors">>, <<"config", ".json">>,
      <<"utils", ".py">>, <<"README", ".md">> }

\* One invocation of the builder on a ModelInfo whose file list is any sequence of up
\* to MaxFiles descriptors, the same name listed more than once included.
InitListing ==
    /\ MainIdle /\ RiskIdle /\ EngineIdle /\ SysIdle
    /\ \E fs \in SeqsUpTo(ListingNames, MaxFiles) :
            builds = <<NewBuild([name |-> "a",
                                 author |-> "unknown",
                                 description |-> Absent,
                                 library_name |-> HubLibrary("a"),
                                 license |-> HubLicense("a"),
                                 model_size |-> estimate_model_size(fs),
                                 files |-> fs])>>
    /\ temp_dir = {}
    /\ dir_exists = TRUE

SpecListing == InitListing /\ [][NextBuild]_vars

\* ---------------------------------------------------------------- analyses around cleanup

\* An AIBOMAgentSystem as its constructor leaves it: AIBOMGenerator.__init__ has made
\* the temp directory, no analysis has run.
InitCleanup ==
    /\ MainIdle /\ RiskIdle /\ EngineIdle /\ SysIdle
    /\ builds = <<>>
    /\ temp_dir = {}
    /\ dir_exists = TRUE

\* AIBOMAgentSystem.initialize when _initialized is False: the three services'
\* initialize (none of which makes the temp directory), then the flag.
initialize(sys) ==
    IF sys.initialized THEN sys
    ELSE [initialized |-> TRUE,
          runs |-> [hf_service |-> sys.runs.hf_service + 1,
                    aibom_generator |-> sys.runs.aibom_generator + 1,
                    bedrock_agent |-> sys.runs.bedrock_agent + 1]]

\* AIBOMAgentSystem.analyze_model up to its call of generate_aibom, for the metadata
\* the hub holds (the same for every analysis of a run): initialize if needed, then
\* the builder is invoked.  The analyses are made one after the other.
SystemAnalyze(model_info) ==
    /\ Len(builds) < MaxBuilds
    /\ \A i \in DOMAIN builds : builds[i].pc = "returned"
    /\ builds # <<>> => model_info = builds[1].model_info
    /\ system' = initialize(system)
    /\ builds' = Append(builds, NewBuild(model_info))
    /\ UNCHANGED <<temp_dir, dir_exists, callers, mainVars, riskVars, engineVars>>

\* AIBOMAgentSystem.cleanup between analyses: AIBOMGenerator.cleanup removes the
\* temp directory with all it holds, then _initialized = False.
SystemCleanup ==
    /\ \A i \in DOMAIN builds : builds[i].pc = "returned"
    /\ dir_exists' = FALSE
    /\ temp_dir' = {}
    /\ system' = [system EXCEPT !.initialized = FALSE]
    /\ UNCHANGED <<builds, callers, mainVars, riskVars, engineVars>>

NextCleanup ==
    \/ \E model_info \in BuildInfos : SystemAnalyze(model_info)
    \/ SystemCleanup
    \/ NextBuild

SpecCleanup == InitCleanup /\ [][NextCleanup]_vars

\* ---------------------------------------------------------------- concurrent calls on one orchestrator

MaxCallers == 2         \* coroutines called on the one orchestrator in one event loop

CallKinds == {"initialize", "analyze_single_model", "compare_models"}

\* Where a call is once the orchestrator is initialized: initialize has returned; the
\* other two are at their first pipeline stage (compare_models through the pipelines
\* it gathers, each of which finds _initialized True).
AfterInitialize(kind) == IF kind = "initialize" THEN "returned" ELSE "stage"

\* A coroutine of the orchestrator is created and scheduled.
Call(kind) ==
    /\ Len(callers) < MaxCallers
    /\ callers' = Append(callers, [kind |-> kind, pc |-> "called"])
    /\ UNCHANGED <<system, mainVars, riskVars, engineVars, buildVars>>

\* The coroutine runs up to its first suspension.  With _initialized True it goes on
\* to its stage (initialize returns); otherwise it is in initialize, which has no
\* lock: hf_service.initialize starts and suspends in run_in_executor(whoami).
CallEnter(i) ==
    /\ callers[i].pc = "called"
    /\ IF system.initialized
       THEN /\ callers' = [callers EXCEPT ![i].pc = AfterInitialize(callers[i].kind)]
            /\ UNCHANGED system
       ELSE /\ callers' = [callers EXCEPT ![i].pc = "whoami"]
            /\ system' = [system EXCEPT !.runs.hf_service = @ + 1]
    /\ UNCHANGED <<mainVars, riskVars, engineVars, buildVars>>

\* whoami is back (its exception is swallowed): aibom_generator.initialize and
\* bedrock_agent.initialize run without suspending; when boto3.client raises, the
\* flag stays False and the call fails, otherwise _initialized = True and the call
\* goes on to its stage.
InitResume(i, outcome) ==
    /\ callers[i].pc = "whoami"
    /\ system' = [system EXCEPT !.runs.aibom_generator = @ + 1,
                                !.runs.bedrock_agent = @ + 1,
                                !.initialized = IF outcome = "ok" THEN TRUE ELSE @]
    /\ callers' = [callers EXCEPT ![i].pc =
                        IF outcome = "ok" THEN AfterInitialize(callers[i].kind) ELSE "failed"]
    /\ UNCHANGED <<mainVars, riskVars, engineVars, buildVars>>

NextCallers ==
    \/ \E kind \in CallKinds : Call(kind)
    \/ \E i \in DOMAIN callers : CallEnter(i)
    \/ \E i \in DOMAIN callers, outcome \in {"ok", "fail"} : InitResume(i, outcome)

SpecCallers == Init /\ [][NextCallers]_vars


\* ---------------------------------------------------------------- properties

\* C1: in a comparison, from the moment one of the per-model pipelines has failed,
\* compare_models is either still in its gather or has failed itself: it holds no
\* results, neither the comparison engine nor the insights call nor the comparison
\* report has been called, and the answer invoke gives is not a success and carries
\* no report.
C1_FailedPipelineFailsComparison ==
    (cmp.pc # "none" /\ \E i \in DOMAIN pipes : pipes[i].pc = "failed") =>
        /\ cmp.pc \in {"gather", "failed"}
        /\ cmp.individual_results = <<>>
        /\ cmp.report_path = Absent
        /\ calls = NoCalls
        /\ inv.pc = "responded" =>
                inv.resp.success = "false" /\ inv.resp.report_path = Absent

\* A comparison answered after one pipeline failed although another one had completed.
C1_Witness ==
    /\ inv.pc = "responded"
    /\ cmp.pc = "failed"
    /\ \E i, j \in DOMAIN pipes : pipes[i].pc = "failed" /\ pipes[j].pc = "done"

\* C2: analyze_security and generate_comparison_insights return for every outcome of
\* the reasoning service, so that a pipeline or a comparison only ever fails by a
\* failure of the metadata fetch or of a report sink, never by what the service replied.
C2_ReasoningNeverFailsARun ==
    /\ \A i \in DOMAIN pipes :
            pipes[i].pc = "failed" =>
                pipes[i].error \in {"MetadataFetchError", "ReportSinkError"}
    /\ cmp.pc = "failed" => cmp.error \in {"MetadataFetchError", "ReportSinkError"}

\* C3: generate_aibom never raises, so no pipeline fails in its build stage; and when
\* a step of its try block failed, the document it returned has exactly one
\* component, named after the model, no dependencies, vulnerabilities or
\* compositions, and a serial number drawn for the fallback, which no other document
\* of the request carries.
C3_BuilderNeverFailsOutward ==
    \A i \in DOMAIN pipes :
        /\ pipes[i].pc = "failed" => pipes[i].stages # <<"fetch">>
        /\ (pipes[i].pc = "assessing" /\ pipes[i].build_log # "none") =>
                LET aibom == pipes[i].aibom
                IN /\ Len(aibom.components) = 1
                   /\ aibom.components[1].name = <<pipes[i].name>>
                   /\ aibom.dependencies = <<>>
                   /\ aibom.vulnerabilities = <<>>
                   /\ aibom.compositions = <<>>
                   /\ aibom.serial_number = Uuid4(i, "basic")
                   /\ \A j \in DOMAIN pipes :
                        (j # i /\ inv.pc = "running"
                              /\ pipes[j].pc \in {"assessing", "reporting", "done"}) =>
                            pipes[j].aibom.serial_number # aibom.serial_number

\* A pipeline that goes on to its assessment with the fallback document, after the
\* builder's temporary file could not be written, while the other pipeline of the
\* request (for the same model) holds a fallback document of its own.
C3_Witness ==
    \E i, j \in DOMAIN pipes :
        /\ i # j
        /\ pipes[i].name = pipes[j].name
        /\ pipes[i].pc = "assessing" /\ pipes[i].build_log = "tempfile"
        /\ pipes[j].pc = "assessing" /\ pipes[j].build_log = "manifest"
        /\ Len(pipes[i].aibom.components) = 1

\* C4: invoke never raises: every answer is a returned response; and when the
\* orchestrator could not be created, or the single pipeline failed, or the comparison
\* failed, the response has success = false, the error of that failure, and the
\* action of the request ("unknown" for a request that carries none).
C4_InvokeIsBackstop ==
    inv.pc = "responded" =>
        /\ inv.resp.kind = "returned"
        /\ LET failure ==
                IF ~orchestrator.exists THEN "CreateError"
                ELSE IF cmp.pc = "failed" THEN cmp.error
                ELSE IF /\ Len(pipes) > 0
                        /\ inv.payload.action = "analyze_model"
                        /\ pipes[1].pc = "failed"
                THEN pipes[1].error
                ELSE Absent
           IN failure # Absent =>
                /\ inv.resp.success = "false"
                /\ inv.resp.error = failure
                /\ inv.resp.action =
                        IF inv.payload.action = Absent THEN "unknown" ELSE inv.payload.action

\* An analyze_model request answered with the failure of its report sink.
C4_Witness ==
    /\ inv.pc = "responded"
    /\ inv.payload.action = "analyze_model"
    /\ Len(pipes) > 0
    /\ pipes[1].error = "ReportSinkError"
    /\ inv.resp.success = "false"
    /\ inv.resp.action = "analyze_model"

C6_StagesInOrder ==
    \A i \in DOMAIN pipes :
        LET stages == pipes[i].stages
            order == <<"fetch", "build", "assess", "assemble", "report">>
        IN /\ Len(stages) <= Len(order)
           /\ stages = SubSeq(order, 1, Len(stages))
           /\ pipes[i].pc = "fetching" => stages = <<>>
           /\ pipes[i].pc = "building" => stages = <<"fetch">>
           /\ pipes[i].pc = "assessing" => stages = <<"fetch", "build">>
           /\ pipes[i].pc = "reporting" => stages = <<"fetch", "build", "assess", "assemble">>
           /\ pipes[i].pc = "done" => stages = order
           /\ (pipes[i].pc = "done" /\ inv.pc = "running") =>
                    pipes[i].report_path = "aibom_report.html"

\* The pipeline of an analyze_model request, done, before invoke has answered.
C6_Witness ==
    /\ inv.pc = "running"
    /\ inv.payload.action = "analyze_model"
    /\ pipes[1].pc = "done"
    /\ pipes[1].stages = <<"fetch", "build", "assess", "assemble", "report">>

\* C7: the metadata fetch of a pipeline is attempted at most once, and exactly once
\* by the time the pipeline is past it; a pipeline whose fetch failed has completed no
\* stage, one whose report sink failed has completed the four stages before the
\* report and no other; a failed pipeline has no report path, and it stays as it
\* failed; and an analyze_model request whose pipeline failed is answered with that
\* error.
C7_StageFailureFailsPipeline ==
    /\ [](\A i \in DOMAIN pipes :
            /\ pipes[i].fetches <= 1
            /\ pipes[i].pc = "fetching" => pipes[i].fetches = 0
            /\ pipes[i].pc \notin {"fetching", "cancelled"} => pipes[i].fetches = 1
            /\ (pipes[i].pc = "failed" /\ pipes[i].error = "MetadataFetchError") =>
                    pipes[i].stages = <<>>
            /\ (pipes[i].pc = "failed" /\ pipes[i].error = "ReportSinkError") =>
                    pipes[i].stages = <<"fetch", "build", "assess", "assemble">>
            /\ pipes[i].pc = "failed" => pipes[i].report_path = Absent
            /\ (/\ pipes[i].pc = "failed"
                /\ inv.pc = "responded"
                /\ inv.payload.action = "analyze_model") =>
                    inv.resp.success = "false" /\ inv.resp.error = pipes[i].error)
    /\ [][\A i \in DOMAIN pipes : pipes[i].pc = "failed" => pipes'[i] = pipes[i]]_vars

\* An analyze_model request answered after its metadata fetch failed.
C7_Witness ==
    /\ inv.pc = "responded"
    /\ inv.payload.action = "analyze_model"
    /\ Len(pipes) > 0
    /\ pipes[1].pc = "failed"
    /\ pipes[1].error = "MetadataFetchError"
    /\ pipes[1].fetches = 1

\* C8: the comparison engine has been called only if every pipeline of the request is
\* done, the insights call only if the engine has returned, and the comparison report
\* only if the insights call has returned; each is called at most once, and the
\* comparison is done only if the report has returned.
C8_PhasesInOrder ==
    /\ calls.engine > 0 =>
            /\ Len(pipes) = Len(inv.payload.model_names)
            /\ \A i \in DOMAIN pipes : pipes[i].pc = "done"
    /\ calls.insights > 0 => calls.engine_ret > 0
    /\ calls.report > 0 => calls.insights_ret > 0
    /\ cmp.pc = "done" => calls.report_ret > 0
    /\ calls.engine <= 1 /\ calls.insights <= 1 /\ calls.report <= 1

\* A comparison that is done, each of its three phases called once and returned.
C8_Witness ==
    /\ cmp.pc = "done"
    /\ calls.engine_ret = 1 /\ calls.insights_ret = 1 /\ calls.report_ret = 1

\* C9, as stated: compare_models has returned or raised only if every pipeline it
\* spawned has terminated.
C9_BarrierOnEveryCompletion ==
    cmp.pc \in {"done", "failed"} => \A i \in DOMAIN pipes : Terminated(pipes[i])

\* C9, amended: compare_models is past its gather without a failure only if every
\* pipeline it spawned is done; when it raises for a failed pipeline the others may
\* still be running, and they have all terminated (asyncio.run cancels them) by the
\* time invoke answers.
C9_BarrierOnReturn ==
    /\ cmp.pc \in {"engine", "insights", "report", "done"} =>
            \A i \in DOMAIN pipes : pipes[i].pc = "done"
    /\ inv.pc = "responded" => \A i \in DOMAIN pipes : Terminated(pipes[i])

\* A comparison that raised while a sibling pipeline was still running: the sibling
\* was cancelled before invoke answered.
C9_Witness ==
    /\ inv.pc = "responded"
    /\ cmp.pc = "failed"
    /\ \E i \in DOMAIN pipes : pipes[i].pc = "cancelled"

\* C10: a comparison has one pipeline per position of model_names, for the name at
\* that position; and while it holds the results of its gather, there are as many as
\* names, the i-th being the result of the i-th pipeline, for model_names[i].
C10_ResultsByPosition ==
    cmp.pc # "none" =>
        LET model_names == inv.payload.model_names
            results == cmp.individual_results
        IN /\ Len(pipes) = Len(model_names)
           /\ \A i \in DOMAIN pipes : pipes[i].name = model_names[i] /\ pipes[i].occ = i
           /\ (inv.pc = "running" /\ cmp.pc \in {"engine", "insights", "report", "done"}) =>
                /\ Len(results) = Len(model_names)
                /\ \A i \in DOMAIN results :
                        results[i].model_name = model_names[i] /\ results[i].occ = i

\* The results of a comparison of one model with itself, gathered after the second
\* pipeline completed before the first.
C10_Witness ==
    /\ cmp.pc = "engine"
    /\ inv.payload.model_names = <<"a", "a">>
    /\ finished = <<2, 1>>
    /\ Len(cmp.individual_results) = 2
    /\ cmp.individual_results[1].occ = 1


\* C11: every record analyze_security returns has a risk_score between 0 and 10 (0
\* and 100 tenths) and a risk_level among LOW, MEDIUM, HIGH, CRITICAL.
C11_RiskRecordInRange ==
    analysis.done =>
        /\ analysis.value.risk_score >= 0
        /\ analysis.value.risk_score <= 100
        /\ analysis.value.risk_level \in {"LOW", "MEDIUM", "HIGH", "CRITICAL"}

\* C12: for a reply that carries none of the expected keys (prose without JSON, or a
\* JSON object of other keys only), analyze_security returns risk score 5.0, level
\* MEDIUM and a recommendations list of exactly one entry.
C12_MalformedReplyGivesDefault ==
    (/\ analysis.done
     /\ ~reply.raised
     /\ \A i \in DOMAIN reply.text : reply.text[i] \in ProsePieces \cup {"{", "}", "other"}) =>
        /\ analysis.value.risk_score = 50
        /\ analysis.value.risk_level = "MEDIUM"
        /\ analysis.value.recommendations = ListOf(1)


\* C13: the comparison engine raises exactly when the list it is called with is
\* empty, and returns a ModelComparison exactly when it is not.
C13_EngineFailsExactlyOnEmpty ==
    engine_out.done => (engine_out.raised <=> engine_results = <<>>)

\* C17: for a list of a single result, common_components are that model's components,
\* one for one, and every entry of unique_components is empty.
C17_SingleResultAllCommonNoneUnique ==
    (engine_out.done /\ Len(engine_results) = 1 /\ ~engine_out.raised) =>
        LET components == engine_results[1].aibom.components
            common == engine_out.value.common_components
            unique == engine_out.value.unique_components
        IN /\ Len(common) = Len(components)
           /\ \A i \in DOMAIN components :
                common[i].name = components[i].name /\ common[i].type = components[i].type
           /\ \A k \in DOMAIN unique : unique[k] = <<>>


\* The sum of the known sizes of the first n results.
RECURSIVE KnownTotal(_, _)
KnownTotal(rs, n) ==
    IF n = 0 THEN 0
    ELSE KnownTotal(rs, n - 1)
         + (IF rs[n].model_info.model_size.known THEN rs[n].model_info.model_size.v ELSE 0)

\* C18: for results of different models, average_size is the sum of the known sizes
\* divided by their number, and 0 when no size is known (for the sizes 100, missing,
\* 300 it is 200 and the largest model is the third); while a size is known,
\* largest_model has the greatest known size and smallest_model the least known
\* size, so neither is a model whose size is missing.
C18_SizesOverKnownOnly ==
    (engine_out.done /\ ~engine_out.raised) =>
        LET rs == engine_results
            known == {i \in DOMAIN rs : rs[i].model_info.model_size.known}
            size(i) == rs[i].model_info.model_size.v
            sizes == engine_out.value.size_comparison
        IN /\ known = {} =>
                /\ sizes.average_size.sum = 0
                /\ sizes.largest_model = "" /\ sizes.smallest_model = ""
           /\ known # {} =>
                /\ sizes.average_size.n = Cardinality(known)
                /\ sizes.average_size.sum = KnownTotal(rs, Len(rs))
                /\ \E i \in known :
                    /\ rs[i].model_name = sizes.largest_model
                    /\ \A j \in known : size(j) <= size(i)
                /\ \E i \in known :
                    /\ rs[i].model_name = sizes.smallest_model
                    /\ \A j \in known : size(i) <= size(j)
           /\ [i \in DOMAIN rs |-> rs[i].model_info.model_size]
                    = <<KnownSize(100), NoSize, KnownSize(300)>> =>
                /\ sizes.average_size.sum = 200 * sizes.average_size.n
                /\ sizes.largest_model = rs[3].model_name

\* The sizes 100, missing, 300 compared: average 400 / 2, the third model largest and
\* the first smallest.
C18_Witness ==
    /\ engine_out.done
    /\ Len(engine_results) = 3
    /\ [i \in DOMAIN engine_results |-> engine_results[i].model_info.model_size]
            = <<KnownSize(100), NoSize, KnownSize(300)>>
    /\ engine_out.value.size_comparison.average_size = [sum |-> 400, n |-> 2]
    /\ engine_out.value.size_comparison.largest_model = engine_results[3].model_name
    /\ engine_out.value.size_comparison.smallest_model = engine_results[1].model_name

\* C20: for results of two or more different models, a component name of the first
\* result is among common_components iff every other result has a component of that
\* name; every common record has the name and the data of a component of the first
\* result and found_in_models equal to the model names in input order; and no name
\* is reported twice.
C20_CommonFromFirstModel ==
    (engine_out.done /\ ~engine_out.raised /\ Len(engine_results) >= 2) =>
        LET rs == engine_results
            first == rs[1].aibom.components
            common == engine_out.value.common_components
            has(j, name) ==
                \E k \in DOMAIN rs[j].aibom.components : rs[j].aibom.components[k].name = name
        IN /\ \A i \in DOMAIN first :
                (\E c \in DOMAIN common : common[c].name = first[i].name)
                    <=> (\A j \in 2..Len(rs) : has(j, first[i].name))
           /\ \A c \in DOMAIN common :
                /\ \E i \in DOMAIN first :
                        common[c].name = first[i].name /\ common[c].type = first[i].type
                /\ common[c].found_in_models = [j \in DOMAIN rs |-> rs[j].model_name]
           /\ \A c, d \in DOMAIN common : common[c].name = common[d].name => c = d

\* Three models compared: the first has two components, of which the second model
\* has only one and the third both, so exactly one is common.
C20_Witness ==
    /\ engine_out.done
    /\ Len(engine_results) = 3
    /\ Len(engine_results[1].aibom.components) = 2
    /\ Len(engine_results[2].aibom.components) = 1
    /\ Len(engine_results[3].aibom.components) = 2
    /\ Len(engine_out.value.common_components) = 1

\* The invocations of generate_aibom that have returned.
ReturnedBuilds == {i \in DOMAIN builds : builds[i].pc = "returned"}

\* C14 (as stated): whenever the file list is empty, the AIBOM generate_aibom
\* returns has at least one component.
C14_EmptyFilesStillOneComponent ==
    \A i \in ReturnedBuilds :
        builds[i].model_info.files = <<>> => Len(builds[i].aibom.components) >= 1

\* The HIGH-severity findings of a vulnerability list that affect a reference.
HighFindingsFor(vulnerabilities, ref) ==
    Cardinality({k \in DOMAIN vulnerabilities :
                    /\ vulnerabilities[k].severity = "high"
                    /\ vulnerabilities[k].ref = ref})

\* What the AIBOM is to say about a file: one finding for a .py file naming
\* pickle in any letter case, none for any other file.
PickleFindingsDue(file_name) ==
    IF EndsWith(file_name, {".py"}) /\ ContainsLower(file_name, "pickle") THEN 1 ELSE 0

LicenseFindingsFor(vulnerabilities, model_name) ==
    Cardinality({k \in DOMAIN vulnerabilities :
                    /\ vulnerabilities[k].severity = "medium"
                    /\ vulnerabilities[k].source = "AIBOM License Analysis"
                    /\ vulnerabilities[k].ref = <<model_name>>})

LicenseFindingsDue(license) == IF license \in {Absent, "unknown"} THEN 1 ELSE 0

\* C16 (as stated): every AIBOM generate_aibom returns has exactly one MEDIUM
\* license finding referencing the model when the license is None or "unknown",
\* and none for any other license.
C16_LicenseFindingInEveryAibom ==
    \A i \in ReturnedBuilds :
        LicenseFindingsFor(builds[i].aibom.vulnerabilities, builds[i].model_info.name)
            = LicenseFindingsDue(builds[i].model_info.license)

\* C16 (amended): the same, in every AIBOM that is not the fallback document.
C16_LicenseFindingOnNormalPath ==
    \A i \in ReturnedBuilds :
        ~builds[i].fallback =>
            LicenseFindingsFor(builds[i].aibom.vulnerabilities, builds[i].model_info.name)
                = LicenseFindingsDue(builds[i].model_info.license)

C16_Witness ==
    \E i \in ReturnedBuilds :
        /\ ~builds[i].fallback
        /\ builds[i].model_info.license = "unknown"
        /\ LicenseFindingsFor(builds[i].aibom.vulnerabilities, builds[i].model_info.name) = 1

\* The temporary files an invocation has named.
TempFilesOf(b) == {b.manifest_file, b.output_file} \ {NoFile}

\* C19: the temporary files of two invocations have different names, an invocation
\* that is still to run the generator finds its manifest file where it wrote it, and
\* once generate_aibom has returned, by either path, none of the files the invocation
\* named or created exists.
C19_TempFilesReleased ==
    /\ \A i, j \in DOMAIN builds :
            i # j => TempFilesOf(builds[i]) \cap TempFilesOf(builds[j]) = {}
    /\ \A i \in DOMAIN builds :
            builds[i].pc = "generating" => builds[i].manifest_file \in temp_dir
    /\ \A i \in ReturnedBuilds :
            (TempFilesOf(builds[i]) \cup builds[i].created) \cap temp_dir = {}

C19_Witness ==
    \E i \in ReturnedBuilds, j \in DOMAIN builds :
        /\ builds[i].fallback
        /\ builds[i].created # {}
        /\ builds[j].pc = "generating"
        /\ builds[j].manifest_file \in temp_dir

\* C21: for results of different models, the unique_components entry of a model is
\* its component list with exactly the components removed whose name another model
\* has, order and repetitions kept; and when two models with disjoint name-sets are
\* compared, each entry is the model's full list and common_components is empty.
C21_UniqueComponents ==
    (engine_out.done /\ ~engine_out.raised) =>
        LET rs == engine_results
            unique == engine_out.value.unique_components
            names(j) == {rs[j].aibom.components[c].name : c \in DOMAIN rs[j].aibom.components}
            elsewhere(k, name) == \E j \in DOMAIN rs : j # k /\ name \in names(j)
            kept(k) == {c \in DOMAIN rs[k].aibom.components :
                            ~elsewhere(k, rs[k].aibom.components[c].name)}
            before(k, c) == Cardinality({d \in kept(k) : d < c})
        IN /\ DOMAIN unique = DOMAIN rs
           /\ \A k \in DOMAIN rs :
                /\ Len(unique[k]) = Cardinality(kept(k))
                /\ \A c \in kept(k) :
                        unique[k][before(k, c) + 1] = rs[k].aibom.components[c]
           /\ (Len(rs) = 2 /\ names(1) \cap names(2) = {}) =>
                /\ unique[1] = rs[1].aibom.components
                /\ unique[2] = rs[2].aibom.components
                /\ engine_out.value.common_components = <<>>

\* Two models compared, the first with model.bin twice around config.json and the
\* second with config.json only: the first keeps both model.bin components.
C21_Witness ==
    /\ engine_out.done
    /\ Len(engine_results) = 2
    /\ Len(engine_results[1].aibom.components) = 3
    /\ Len(engine_results[2].aibom.components) = 1
    /\ Len(engine_out.value.unique_components[1]) = 2
    /\ engine_out.value.unique_components[1][1] = engine_out.value.unique_components[1][2]
    /\ engine_out.value.unique_components[2] = <<>>

\* The positions of a file list whose descriptor has a recognized suffix.
Recognized(files) ==
    {k \in DOMAIN files : EndsWith(files[k], {".bin", ".safetensors", ".json", ".py"})}

\* The component type the listing calls for.
TypeDue(file_name) ==
    IF EndsWith(file_name, {".bin", ".safetensors"}) THEN "model-weights"
    ELSE IF EndsWith(file_name, {".json"}) THEN "configuration"
    ELSE "source-code"

\* C22: the AIBOM of the normal path has as many components as the file list has
\* descriptors of a recognized suffix, and its n-th component is that of the n-th
\* such descriptor (its name, and model-weights for .bin and .safetensors,
\* configuration for .json, source-code for .py), a repeated name giving a repeated
\* component and any other suffix none.
C22_ComponentPerRecognizedFile ==
    \A i \in ReturnedBuilds :
        ~builds[i].fallback =>
            LET files == builds[i].model_info.files
                components == builds[i].aibom.components
                nth(k) == Cardinality({j \in Recognized(files) : j <= k})
            IN /\ Len(components) = Cardinality(Recognized(files))
               /\ \A k \in Recognized(files) :
                    /\ components[nth(k)].name = files[k]
                    /\ components[nth(k)].type = TypeDue(files[k])

\* The listing model.bin, model.bin built on the normal path: two components.
C22_Witness ==
    \E i \in ReturnedBuilds :
        /\ ~builds[i].fallback
        /\ builds[i].model_info.files = << <<"model", ".bin">>, <<"model", ".bin">> >>
        /\ Len(builds[i].aibom.components) = 2

\* The reply read as text: the positions of its first "{" and its last "}" (0 when it
\* has none), and whether what lies from the one to the other is one well-formed
\* JSON object, that is members only.
FirstOpen ==
    IF \E i \in DOMAIN reply.text : reply.text[i] = "{"
    THEN CHOOSE i \in DOMAIN reply.text :
            reply.text[i] = "{" /\ \A j \in 1..(i - 1) : reply.text[j] # "{"
    ELSE 0

LastClose ==
    IF \E i \in DOMAIN reply.text : reply.text[i] = "}"
    THEN CHOOSE i \in DOMAIN reply.text :
            reply.text[i] = "}" /\ \A j \in (i + 1)..Len(reply.text) : reply.text[j] # "}"
    ELSE 0

OneObject ==
    /\ ~reply.raised
    /\ FirstOpen > 0 /\ LastClose > FirstOpen
    /\ \A k \in (FirstOpen + 1)..(LastClose - 1) : reply.text[k] \notin {"{", "}", "prose"}

\* The object's member for a key, given the pieces that are members of that key: the
\* last of them, Absent when the object has none.
ObjectMember(pieces) ==
    LET at == {k \in (FirstOpen + 1)..(LastClose - 1) : reply.text[k] \in pieces}
    IN IF at = {} THEN Absent ELSE reply.text[CHOOSE k \in at : \A j \in at : j <= k]

\* The values of the object, field by field, a field the object lacks having the
\* default of its data.get.
ObjectScore ==
    LET m == ObjectMember({"score_7", "score_15", "score_str"})
    IN IF m = "score_7" THEN 75 ELSE IF m = "score_15" THEN 150 ELSE 50

ObjectLevel ==
    LET m == ObjectMember({"level_HIGH", "level_low", "level_num"})
    IN IF m = "level_HIGH" THEN "HIGH" ELSE IF m = "level_low" THEN "low"
       ELSE IF m = "level_num" THEN "7" ELSE "MEDIUM"

ObjectVulnerabilities ==
    LET m == ObjectMember({"vulns_1", "vulns_null"})
    IN IF m = "vulns_1" THEN ListOf(1) ELSE IF m = "vulns_null" THEN NotAList ELSE ListOf(0)

ObjectRecommendations ==
    IF ObjectMember({"recs_2"}) = "recs_2" THEN ListOf(2) ELSE ListOf(0)

ObjectDifferences ==
    LET m == ObjectMember({"diffs_1", "diffs_num"})
    IN IF m = "diffs_1" THEN ListOf(1) ELSE IF m = "diffs_num" THEN NotAList ELSE ListOf(0)

ObjectSummary == IF ObjectMember({"summary_s"}) = "summary_s" THEN "s" ELSE "Analysis completed"

\* The object's risk_score is a number, or the object has none.
ScoreIsNumber == ObjectMember({"score_7", "score_15", "score_str"}) # "score_str"

C24_ExtremeRiskFirstOnTies ==
    (engine_out.done /\ ~engine_out.raised /\ engine_results # <<>>) =>
        LET rs == engine_results
            score(i) == rs[i].security_analysis.risk_score
        IN /\ \E i \in DOMAIN rs :
                /\ engine_out.value.highest_risk_model = rs[i].model_name
                /\ \A j \in DOMAIN rs : score(j) <= score(i)
                /\ \A j \in 1..(i - 1) : score(j) < score(i)
           /\ \E i \in DOMAIN rs :
                /\ engine_out.value.lowest_risk_model = rs[i].model_name
                /\ \A j \in DOMAIN rs : score(i) <= score(j)
                /\ \A j \in 1..(i - 1) : score(i) < score(j)

\* The scores 8.0, 2.0, 8.0 compared: the first model is the highest, not the third.
C24_Witness ==
    /\ engine_out.done
    /\ Len(engine_results) = 3
    /\ [i \in DOMAIN engine_results |-> engine_results[i].security_analysis.risk_score]
            = <<80, 20, 80>>
    /\ engine_out.value.highest_risk_model = engine_results[1].model_name
    /\ engine_out.value.lowest_risk_model = engine_results[2].model_name

\* C25: for results of different models, unlicensed_models holds the models without
\* license and no other, each once; common_licenses holds the licenses that two or
\* more of the models have and no other, each once.
C25_UnlicensedAndCommonLicenses ==
    (engine_out.done /\ ~engine_out.raised) =>
        LET rs == engine_results
            licenses == engine_out.value.license_comparison
            holders(l) == {i \in DOMAIN rs : rs[i].model_info.license = l}
        IN /\ Range(licenses.unlicensed_models) = {rs[i].model_name : i \in holders(Absent)}
           /\ Len(licenses.unlicensed_models) = Cardinality(holders(Absent))
           /\ Range(licenses.common_licenses) =
                {l \in {rs[i].model_info.license : i \in DOMAIN rs} \ {Absent} :
                    Cardinality(holders(l)) >= 2}
           /\ Len(licenses.common_licenses) = Cardinality(Range(licenses.common_licenses))

\* Two models under mit, one under apache-2.0: mit alone is common.
C25_Witness ==
    /\ engine_out.done
    /\ [i \in DOMAIN engine_results |-> engine_results[i].model_info.license]
            = <<"mit", "apache-2.0", "mit">>
    /\ engine_out.value.license_comparison.common_licenses = <<"mit">>
    /\ engine_out.value.license_comparison.unlicensed_models = <<>>

\* The permutations of the positions of the list the engine was called with.
InputOrders ==
    {f \in [DOMAIN engine_results -> DOMAIN engine_results] :
        \A i, j \in DOMAIN engine_results : f[i] = f[j] => i = j}

\* C26: for a list of results of different models, common_dependencies holds a name
\* iff every result has a dependency of that name, and the engine gives the same set
\* for the list in any other order.
C26_CommonDependenciesIntersection ==
    (engine_out.done /\ ~engine_out.raised /\ engine_results # <<>>) =>
        LET rs == engine_results
            names(i) == {rs[i].aibom.dependencies[d].name : d \in DOMAIN rs[i].aibom.dependencies}
            common == engine_out.value.dependency_analysis.common_dependencies
        IN /\ common = {name \in UNION {names(i) : i \in DOMAIN rs} :
                            \A i \in DOMAIN rs : name \in names(i)}
           /\ \A f \in InputOrders :
                engine_compare_models([i \in DOMAIN rs |-> rs[f[i]]])
                        .value.dependency_analysis.common_dependencies = common

\* Three models of which the second depends on torch only and the others on torch
\* and transformers: torch alone is common.
C26_Witness ==
    /\ engine_out.done
    /\ Len(engine_results) = 3
    /\ Len(engine_results[1].aibom.dependencies) = 2
    /\ Len(engine_results[2].aibom.dependencies) = 1
    /\ Len(engine_results[3].aibom.dependencies) = 2
    /\ engine_out.value.dependency_analysis.common_dependencies = {<<"torch">>}

\* C27: the orchestrator that handles a request was created for that request: while
\* a request is being handled or has just been answered, the orchestrator at work
\* carries the session id of that request.
C27_CoordinatorOfThisRequest ==
    (inv.pc \in {"initializing", "running", "responded"} /\ orchestrator.exists) =>
        orchestrator.session_id = inv.session

\* What an AIBOM says, apart from the identifiers drawn for it.
FindingsOf(aibom) ==
    [k \in DOMAIN aibom.vulnerabilities |->
        [severity |-> aibom.vulnerabilities[k].severity,
         source |-> aibom.vulnerabilities[k].source,
         ref |-> aibom.vulnerabilities[k].ref]]

\* C28: of two analyses of the same metadata, the later one, whatever the system did
\* in between (cleanup included), builds its document by the normal path when the
\* earlier one did and nothing failed in its own build, and its AIBOM has the same
\* components, dependencies and findings.
C28_CleanupKeepsNormalPath ==
    \A i, j \in ReturnedBuilds :
        (i < j /\ builds[i].fault = "none"
               /\ builds[j].fault \notin BuildFaults \ {"none"}) =>
            /\ ~builds[j].fallback
            /\ builds[j].aibom.components = builds[i].aibom.components
            /\ builds[j].aibom.dependencies = builds[i].aibom.dependencies
            /\ FindingsOf(builds[j].aibom) = FindingsOf(builds[i].aibom)

\* No call is at a pipeline stage while the orchestrator is not initialized.
StageAfterInitialize ==
    \A i \in DOMAIN callers : callers[i].pc = "stage" => system.initialized

\* C29: on one orchestrator, however its calls interleave, each service's initialize
\* has run at most once, and a call is at a pipeline stage only when the
\* orchestrator is initialized.
C29_InitializeAtMostOnce ==
    /\ system.runs.hf_service <= 1
    /\ system.runs.aibom_generator <= 1
    /\ system.runs.bedrock_agent <= 1
    /\ StageAfterInitialize

\* C30: each per-model block of the ModelComparison has as many entries as results
\* were passed in, whether or not two of them carry the same model name.
C30_EntryPerResult ==
    (engine_out.done /\ ~engine_out.raised) =>
        LET n == Len(engine_results)
            out == engine_out.value
        IN /\ Len(out.unique_components) = n
           /\ Len(out.risk_scores) = n
           /\ Len(out.risk_levels) = n
           /\ Len(out.vulnerability_counts) = n
           /\ Len(out.license_comparison.licenses_by_model) = n
           /\ Len(out.sizes_by_model) = n
           /\ Len(out.dependency_analysis.dependencies_by_model) = n

====
